---- MODULE Spec2Model ----
(***************************************************************************)
(* Verification model of JournalServer's ingestion core.                   *)
(*                                                                         *)
(* Part 1: the Entry Manager (jserver/storage/entry_manager.py) on top of  *)
(* the document store (MongoDatabaseManager) and the durable payload store *)
(* (S3FileManager).  The Entry Manager is synchronous code that runs on    *)
(* the single asyncio event loop, so every public operation is one atomic  *)
(* action.  Inside an action the storage calls are executed in program     *)
(* order on a threaded call state `st`; any one of them may raise          *)
(* (fault = index of the raising storage call, 0 = none), which abandons   *)
(* the rest of the operation exactly as a Python exception does.           *)
(*                                                                         *)
(* Part 2: the scheduler (jserver/input_handlers/input_handler_manager.py).*)
(* Its coroutines run on the same event loop: a coroutine gives up control *)
(* only at an await, so an action is the code of one coroutine from one    *)
(* await to the next.  A trigger handler of a connector is a black box     *)
(* that is in flight from its dispatch until it returns or raises.         *)
(*                                                                         *)
(* Part 3: the connectors.  The insertion helpers and trigger wrappers of  *)
(* InputHandler (jserver/input_handlers/input_handler.py), the identity of *)
(* a record (jserver/entries), and the page pipeline of the Notion         *)
(* connector (jserver/utils/notion.py): split_page_blocks,                 *)
(* resolve_monotonicity and notion_entry_to_entry are pure functions of    *)
(* their arguments and are applied to pages drawn from bounded sets.       *)
(***************************************************************************)
EXTENDS Integers, Sequences, FiniteSets, TLC

\* ---------------------------------------------------------------- bounds
MaxMut == 1        \* cap on mutation_count reached by overwrites
MaxFiles == 2      \* cap on the number of payloads ever uploaded
MaxFault == 5      \* delete_group: a fault may hit any of its first MaxFault storage calls
MaxTicks == 4      \* the watch loop is followed for MaxTicks sleep intervals
MaxInFlight == 2   \* interval triggers of one connector in flight at a time
MaxErrors == 2     \* cap on the length of one connector's error log
MaxSize == 2       \* largest size a file in the input directory grows to
MaxWrites == 3     \* cap on the insertions reported by the triggers of a run
MaxBatch == 2      \* records one trigger invocation attempts to persist
MaxDefaults == 3   \* cap on the length of the default list of SensorInfoInputHandler.trigger
MaxRuns == 2       \* trigger invocations followed one after the other
MaxDumps == 2      \* model_dump() calls on one record that are compared
MaxBlocks == 4     \* blocks of a Notion page
MaxLen == 4        \* candidates handed to resolve_monotonicity
MaxMinutes == 2    \* minutes of wall clock a tracked Notion page is followed for
MaxParagraphs == 2 \* paragraphs ever written on the tracked Notion page
MaxEdits == 2      \* edits of the tracked Notion page

\* ------------------------------------------------------------ input sets
Texts == {"a", "b"}                 \* text payloads
FileNames == {"a"}                  \* file names
Groups == {"g1", "g2"}              \* group ids
NoGroup == "none"                   \* group_id = None
FileTypes == {"generic_file"}
NonFileTypes == {"text"}
EntryTypes == NonFileTypes \cup FileTypes
LocalPath == 0                      \* data.file_id of a file entry not yet uploaded
NoFileId == -1                      \* entries without a FileDetail

NoExc == "none"
StorageError == "StorageError"                      \* any driver / network exception
AlreadyExists == "EntryAlreadyExistsException"
NotFound == "EntryNotFoundException"
FileNotFoundError == "FileNotFoundError"            \* upload of a path that is no local file

VARIABLES
    db,            \* entries collection: sequence of documents in natural order
    files,         \* keys present in the bucket of the durable payload store
    next_file_id,  \* number of data uuids handed out so far
    last           \* history: the operation just performed, its arguments and outcome

\* InputHandlerManager and the tasks it has created on the event loop.
VARIABLES
    now,                         \* int(time.time() * 1000) as last read by the watch loop
    check_intervals,             \* handler_id -> trigger_check_interval (seconds) or None
    last_updated,                \* handler_id -> time_ms of the latest interval dispatch
    trigger_errors,              \* handler_id -> list of (timestamp, error)
    stop_event,                  \* asyncio.Event: is_set()
    watch_task,                  \* position of the _start_watching coroutine
    tasks,                       \* handler_id -> interval_trigger_handler tasks in flight
    requests,                    \* handler_id -> state of an awaited on_trigger_request
    scan_tasks,                  \* a scan_input_dir task has been created and not run yet
    input_folder,                \* path -> the file at that path of the input directory
    currently_processing_files,  \* set of paths
    watchers,                    \* path -> locals of its start_file_trigger_watch task
    escaped,                     \* exceptions that left a task or reached a caller
    logs,                        \* EntryInsertionLog items handed to _on_entries_inserted
    done                         \* history: the trigger invocation that ended in this step

\* The connectors: one trigger invocation, one Notion page, one record.
VARIABLES
    invocation,        \* the trigger wrapper in progress: its locals and what it reported
    trigger_defaults,  \* the list object that is the default of SensorInfoInputHandler.trigger
    page_blocks,       \* the blocks of the Notion page being processed
    notion_entries,    \* the candidates (NotionEntry objects) made of the page
    notion_pc,         \* position in the processing of the page
    record,            \* an Entry object held by a connector
    dumps              \* model_dump() of the Entry objects built so far

\* NotionInputHandler: its two collections, the workspace it reads and a trigger.
VARIABLES
    notion_site,         \* the wall clock, the last_edited_time of the day page, its edits so far
    pages_collection,    \* the document of the day page in notion_pages
    entries_collection,  \* the documents of notion_entries, one per tracked rep_uuid
    notion_trigger       \* locals of the running NotionInputHandler.trigger

storage_vars == <<db, files, next_file_id, last>>
tracking_vars == <<notion_site, pages_collection, entries_collection, notion_trigger>>
connector_vars == <<invocation, trigger_defaults, page_blocks, notion_entries, notion_pc,
                    record, dumps, notion_site, pages_collection, entries_collection,
                    notion_trigger>>
manager_vars == <<now, check_intervals, last_updated, trigger_errors, stop_event, watch_task,
                  tasks, requests, scan_tasks, input_folder, currently_processing_files,
                  watchers, escaped, logs, done>>
vars == <<db, files, next_file_id, last, now, check_intervals, last_updated, trigger_errors,
          stop_event, watch_task, tasks, requests, scan_tasks, input_folder,
          currently_processing_files, watchers, escaped, logs, done,
          invocation, trigger_defaults, page_blocks, notion_entries, notion_pc,
          record, dumps, notion_site, pages_collection, entries_collection, notion_trigger>>

\* ----------------------------------------------------------- Record model
hash_text(parts) == <<"sha", parts>>

entry_hash(e) ==
    IF e.entry_type \in FileTypes
        THEN hash_text(<<e.data, ".txt", "{}">>)
        ELSE hash_text(<<e.data, "", "">>)

entry_uuid(e) ==
    IF e.entry_type \in FileTypes
        THEN [prefix |-> "file", handler |-> "", start_time |-> e.start_time,
              hash |-> entry_hash(e)]
        ELSE [prefix |-> "text", handler |-> e.input_handler_id,
              start_time |-> e.start_time, hash |-> entry_hash(e)]

EntryABC(type, data, group) ==
    [entry_type |-> type, data |-> data, start_time |-> 1,
     input_handler_id |-> "ih1", group_id |-> group, mutation_count |-> 0,
     file_id |-> IF type \in FileTypes THEN LocalPath ELSE NoFileId]

model_dump(e) ==
    [entry_uuid |-> entry_uuid(e), entry_type |-> e.entry_type, data |-> e.data,
     start_time |-> e.start_time, input_handler_id |-> e.input_handler_id,
     group_id |-> e.group_id, mutation_count |-> e.mutation_count,
     file_id |-> e.file_id]

DataOf(t) == IF t \in FileTypes THEN FileNames ELSE Texts
AllEntries == UNION {{EntryABC(t, d, g) : d \in DataOf(t), g \in Groups \cup {NoGroup}} : t \in EntryTypes}
UUIDs == {entry_uuid(e) : e \in AllEntries}
NoDoc == model_dump(EntryABC("text", "", NoGroup))

\* ------------------------------------------------------------ call state
\* st threads the storage state, the caller's entry object, the pending
\* exception and the values returned by the last call through an operation.
CallStateOf(d, fs, nf, entry, fault) ==
    [db |-> d, files |-> fs, next_file_id |-> nf, entry |-> entry,
     n |-> 0, fault |-> fault, exc |-> NoExc, faulted |-> FALSE,
     found |-> FALSE, doc |-> NoDoc, uuids |-> <<>>, new_file_id |-> NoFileId,
     ret |-> FALSE, writes |-> 0]

CallState(entry, fault) == CallStateOf(db, files, next_file_id, entry, fault)

Raised(st) == st.exc # NoExc

\* The st.n+1-th storage call: counted, and raising when it is the faulty one.
Called(st) ==
    [st EXCEPT !.n = @ + 1,
               !.exc = IF st.n + 1 = st.fault THEN StorageError ELSE @,
               !.faulted = @ \/ (st.n + 1 = st.fault)]

Stored(d, uuid) == \E i \in 1..Len(d) : d[i].entry_uuid = uuid
IndexOf(d, uuid) == CHOOSE i \in 1..Len(d) :
                        /\ d[i].entry_uuid = uuid
                        /\ \A j \in 1..(i - 1) : d[j].entry_uuid # uuid
RemoveAt(d, i) == SubSeq(d, 1, i - 1) \o SubSeq(d, i + 1, Len(d))

\* ------------------------------------------- MongoDatabaseManager (entries)
\* Mutant: insert_one on a collection without the unique index.
Mongo_insert_entry_no_index(st, e) ==
    IF Raised(st) THEN st
    ELSE LET c == Called(st) IN
         IF Raised(c) THEN c
         ELSE [c EXCEPT !.db = Append(@, model_dump(e)), !.writes = @ + 1]

\* insert_one under the unique index on entry_uuid.
Mongo_insert_entry(st, e) ==
    IF Raised(st) THEN st
    ELSE LET c == Called(st) IN
         IF Raised(c) THEN c
         ELSE IF Stored(c.db, entry_uuid(e))
                  THEN [c EXCEPT !.exc = AlreadyExists]
                  ELSE [c EXCEPT !.db = Append(@, model_dump(e)), !.writes = @ + 1]

\* delete_one: removes the first matching document, no error when none matches.
Mongo_delete_entry(st, uuid) ==
    IF Raised(st) THEN st
    ELSE LET c == Called(st) IN
         IF Raised(c) THEN c
         ELSE IF Stored(c.db, uuid)
                  THEN [c EXCEPT !.db = RemoveAt(@, IndexOf(@, uuid))]
                  ELSE c

\* find_one + validate_entry.
Mongo_pull_entry(st, uuid) ==
    IF Raised(st) THEN st
    ELSE LET c == Called(st) IN
         IF Raised(c) THEN c
         ELSE IF Stored(c.db, uuid)
                  THEN [c EXCEPT !.found = TRUE, !.doc = c.db[IndexOf(c.db, uuid)]]
                  ELSE [c EXCEPT !.found = FALSE, !.doc = NoDoc, !.exc = NotFound]

RECURSIVE UuidsOf(_)
UuidsOf(d) == IF d = <<>> THEN <<>> ELSE <<Head(d).entry_uuid>> \o UuidsOf(Tail(d))

\* Mutant: the group filter never reaches the query.
Mongo_search_entries_all(st, group_id) ==
    IF Raised(st) THEN st
    ELSE LET c == Called(st) IN
         IF Raised(c) THEN c
         ELSE [c EXCEPT !.uuids = UuidsOf(c.db)]

\* find({"group_id": g}) for OutputFilter(group_ids=[g]); result in natural order.
Mongo_search_entries(st, group_id) ==
    IF Raised(st) THEN st
    ELSE LET c == Called(st) IN
         IF Raised(c) THEN c
         ELSE [c EXCEPT !.uuids = UuidsOf(SelectSeq(c.db, LAMBDA x : x.group_id = group_id))]

\* ----------------------------------------------------------- S3FileManager
\* upload_file under a fresh data uuid; the local path must exist.
S3_insert_file(st, local_path) ==
    IF Raised(st) THEN st
    ELSE LET c == Called(st) IN
         IF Raised(c) THEN c
         ELSE IF local_path # LocalPath
                  THEN [c EXCEPT !.exc = FileNotFoundError]
                  ELSE [c EXCEPT !.next_file_id = @ + 1,
                                 !.files = @ \cup {c.next_file_id + 1},
                                 !.new_file_id = c.next_file_id + 1]

\* delete_object: idempotent.
S3_delete_file(st, file_id) ==
    IF Raised(st) THEN st
    ELSE LET c == Called(st) IN
         IF Raised(c) THEN c
         ELSE [c EXCEPT !.files = @ \ {file_id}]

\* ------------------------------------------------------------ EntryManager
EntryManager_get_entry_if_exists(st, uuid) ==
    LET r == Mongo_pull_entry(st, uuid) IN
    IF (~Raised(st)) /\ r.exc = NotFound
        THEN [r EXCEPT !.exc = NoExc, !.found = FALSE, !.doc = NoDoc]
        ELSE r

\* Mutant: the mutate flag is ignored, an existing entry is always overwritten.
EntryManager_insert_entry_ignores_flag(st, mutate) ==
    IF Raised(st) THEN st
    ELSE LET s1 == EntryManager_get_entry_if_exists(st, entry_uuid(st.entry)) IN
         IF Raised(s1) THEN s1
         ELSE IF s1.found
              THEN LET s2 == [s1 EXCEPT !.entry.mutation_count = s1.doc.mutation_count + 1]
                       s3 == Mongo_delete_entry(s2, entry_uuid(s2.entry))
                       s4 == Mongo_insert_entry(s3, s3.entry)
                   IN  IF Raised(s4) THEN s4 ELSE [s4 EXCEPT !.ret = TRUE]
              ELSE LET s2 == Mongo_insert_entry(s1, s1.entry)
                   IN  IF Raised(s2) THEN s2 ELSE [s2 EXCEPT !.ret = FALSE]

\* Mutant: the count is incremented from the incoming object, not the stored one.
EntryManager_insert_entry_own_count(st, mutate) ==
    IF Raised(st) THEN st
    ELSE LET s1 == EntryManager_get_entry_if_exists(st, entry_uuid(st.entry)) IN
         IF Raised(s1) THEN s1
         ELSE IF s1.found
              THEN IF mutate
                   THEN LET s2 == [s1 EXCEPT !.entry.mutation_count = @ + 1]
                            s3 == Mongo_delete_entry(s2, entry_uuid(s2.entry))
                            s4 == Mongo_insert_entry(s3, s3.entry)
                        IN  IF Raised(s4) THEN s4 ELSE [s4 EXCEPT !.ret = TRUE]
                   ELSE [s1 EXCEPT !.exc = AlreadyExists]
              ELSE LET s2 == Mongo_insert_entry(s1, s1.entry)
                   IN  IF Raised(s2) THEN s2 ELSE [s2 EXCEPT !.ret = FALSE]

\* Mutant: an overwrite stores the count it found, the increment is lost.
EntryManager_insert_entry_keeps_count(st, mutate) ==
    IF Raised(st) THEN st
    ELSE LET s1 == EntryManager_get_entry_if_exists(st, entry_uuid(st.entry)) IN
         IF Raised(s1) THEN s1
         ELSE IF s1.found
              THEN IF mutate
                   THEN LET s2 == [s1 EXCEPT !.entry.mutation_count = s1.doc.mutation_count]
                            s3 == Mongo_delete_entry(s2, entry_uuid(s2.entry))
                            s4 == Mongo_insert_entry(s3, s3.entry)
                        IN  IF Raised(s4) THEN s4 ELSE [s4 EXCEPT !.ret = TRUE]
                   ELSE [s1 EXCEPT !.exc = AlreadyExists]
              ELSE LET s2 == Mongo_insert_entry(s1, s1.entry)
                   IN  IF Raised(s2) THEN s2 ELSE [s2 EXCEPT !.ret = FALSE]

EntryManager_insert_entry(st, mutate) ==
    IF Raised(st) THEN st
    ELSE LET s1 == EntryManager_get_entry_if_exists(st, entry_uuid(st.entry)) IN
         IF Raised(s1) THEN s1
         ELSE IF s1.found
              THEN IF mutate
                   THEN LET s2 == [s1 EXCEPT !.entry.mutation_count = s1.doc.mutation_count + 1]
                            s3 == Mongo_delete_entry(s2, entry_uuid(s2.entry))
                            s4 == Mongo_insert_entry(s3, s3.entry)
                        IN  IF Raised(s4) THEN s4 ELSE [s4 EXCEPT !.ret = TRUE]
                   ELSE [s1 EXCEPT !.exc = AlreadyExists]
              ELSE LET s2 == Mongo_insert_entry(s1, s1.entry)
                   IN  IF Raised(s2) THEN s2 ELSE [s2 EXCEPT !.ret = FALSE]

\* Mutant: the old payload is deleted before the new entry is written.
EntryManager_insert_file_entry_deletes_first(st, mutate, delete_old_file) ==
    LET s1 == EntryManager_get_entry_if_exists(st, entry_uuid(st.entry)) IN
    IF Raised(s1) THEN s1
    ELSE LET existing_found == s1.found
             existing == s1.doc
         IN  IF existing_found /\ ~mutate
             THEN [s1 EXCEPT !.exc = AlreadyExists]
             ELSE LET s2 == IF delete_old_file /\ existing_found
                                THEN S3_delete_file(s1, existing.file_id)
                                ELSE s1
                      s3 == S3_insert_file(s2, s2.entry.file_id)
                      s4 == IF Raised(s3) THEN s3
                            ELSE [s3 EXCEPT !.entry.file_id = s3.new_file_id]
                      s5 == EntryManager_insert_entry(s4, mutate)
                  IN  IF Raised(s5) THEN s5 ELSE [s5 EXCEPT !.ret = existing_found]

EntryManager_insert_file_entry(st, mutate, delete_old_file) ==
    LET s1 == EntryManager_get_entry_if_exists(st, entry_uuid(st.entry)) IN
    IF Raised(s1) THEN s1
    ELSE LET existing_found == s1.found
             existing == s1.doc
         IN  IF existing_found /\ ~mutate
             THEN [s1 EXCEPT !.exc = AlreadyExists]
             ELSE LET s3 == S3_insert_file(s1, s1.entry.file_id)
                      s4 == IF Raised(s3) THEN s3
                            ELSE [s3 EXCEPT !.entry.file_id = s3.new_file_id]
                      s5 == EntryManager_insert_entry(s4, mutate)
                      s6 == IF delete_old_file /\ existing_found
                                THEN S3_delete_file(s5, existing.file_id)
                                ELSE s5
                  IN  IF Raised(s6) THEN s6 ELSE [s6 EXCEPT !.ret = existing_found]

EntryManager_delete_non_file_entry(st, doc) ==
    Mongo_delete_entry(st, doc.entry_uuid)

\* Mutant: the metadata row is removed before the payload.
EntryManager_delete_file_entry_row_first(st, doc) ==
    S3_delete_file(Mongo_delete_entry(st, doc.entry_uuid), doc.file_id)

EntryManager_delete_file_entry(st, doc) ==
    Mongo_delete_entry(S3_delete_file(st, doc.file_id), doc.entry_uuid)

deletion_map(st, doc) ==
    IF doc.entry_type \in FileTypes
        THEN EntryManager_delete_file_entry(st, doc)
        ELSE EntryManager_delete_non_file_entry(st, doc)

\* Mutant: a missing entry is skipped without raising.
EntryManager_delete_entry_silent(st, uuid) ==
    IF Raised(st) THEN st
    ELSE LET s1 == EntryManager_get_entry_if_exists(st, uuid) IN
         IF Raised(s1) THEN s1
         ELSE IF ~s1.found THEN s1 ELSE deletion_map(s1, s1.doc)

EntryManager_delete_entry(st, uuid) ==
    IF Raised(st) THEN st
    ELSE LET s1 == EntryManager_get_entry_if_exists(st, uuid) IN
         IF Raised(s1) THEN s1
         ELSE IF ~s1.found
                  THEN [s1 EXCEPT !.exc = NotFound]
                  ELSE deletion_map(s1, s1.doc)

\* Mutant: a failing member is skipped and the loop goes on (the first
\* exception is raised at the end).
RECURSIVE delete_each_best_effort(_, _)
delete_each_best_effort(st, uuids) ==
    IF uuids = <<>> THEN st
    ELSE LET one == EntryManager_delete_entry([st EXCEPT !.exc = NoExc], Head(uuids))
             rest == delete_each_best_effort(one, Tail(uuids))
         IN  [rest EXCEPT !.exc = IF Raised(st) THEN st.exc
                                  ELSE IF Raised(one) THEN one.exc ELSE rest.exc]

\* for entry_uuid in entries: self.delete_entry(entry_uuid)
RECURSIVE delete_each(_, _)
delete_each(st, uuids) ==
    IF uuids = <<>> \/ Raised(st) THEN st
    ELSE delete_each(EntryManager_delete_entry(st, Head(uuids)), Tail(uuids))

EntryManager_delete_group(st, group_id) ==
    LET s1 == Mongo_search_entries(st, group_id) IN
    IF Raised(s1) THEN s1 ELSE delete_each(s1, s1.uuids)

\* ------------------------------------------------------ scheduler: state
Handlers == {"h1", "h2"}            \* handler ids of the configured connectors
None == -1                          \* trigger_check_interval = None
Intervals == {1}                    \* configured trigger_check_interval, in seconds
sleep_interval == 500               \* ms slept between two iterations of the watch loop
Jitter == 100                       \* ms by which an iteration may come late
StartTime == 2000                   \* clock reading, in ms, when the manager is constructed
Horizon == StartTime + MaxTicks * sleep_interval

HandlerError == "Exception"         \* what a trigger handler raises
KeyError == "KeyError"              \* input_handlers[handler_id] for an unknown id

\* Paths of the input directory: <input_folder>/<parent>/<name>.
Paths == {[parent |-> d, name |-> "f"] : d \in Handlers \cup {"lost"}}
NoFile == [exists |-> FALSE, size |-> 0, openable |-> FALSE]
NoWatcher == [pc |-> "none", last_size |-> 0, size_stable |-> FALSE, can_open |-> FALSE,
              polls |-> 0]
NoTrigger == [kind |-> "none", handler |-> "none", name |-> "", outcome |-> "none"]

NoIntervals == [h \in Handlers |-> None]

\* InputHandlerManager.__init__ and construct_input_handlers for a configuration.
InitManager(cfg) ==
    /\ now = StartTime
    /\ check_intervals = cfg
    /\ last_updated = [h \in Handlers |-> -1]
    /\ trigger_errors = [h \in Handlers |-> <<>>]
    /\ stop_event = FALSE
    /\ watch_task = "none"
    /\ tasks = [h \in Handlers |-> 0]
    /\ requests = [h \in Handlers |-> "idle"]
    /\ scan_tasks = FALSE
    /\ input_folder = [p \in Paths |-> NoFile]
    /\ currently_processing_files = {}
    /\ watchers = [p \in Paths |-> NoWatcher]
    /\ escaped = {}
    /\ logs = <<>>
    /\ done = NoTrigger

\* --------------------------------------------------------- connector state
Connectors == {"evernote", "sensor_info"}   \* a connector that hands its log on, and SensorInfoInputHandler
TriggerKinds == {"interval", "request", "new_file"}

NoInvocation == [run |-> 0, connector |-> "none", kind |-> "none", pc |-> "idle",
                 entry_insertion_log |-> <<>>, attempted |-> <<>>, calls |-> 0,
                 reported |-> <<>>]

\* Times are milliseconds since the epoch; the page is the page of one day.
day_start_ms == 86400000
day_end_ms == day_start_ms + 86399999

\* An Entry object with the fields that identity and mutation touch.  Strings
\* built by f-strings are tuples of their parts.
NoOverride == <<"None">>
Entry(type, data, start_time, handler_id, uuid_override, hash_override) ==
    [entry_type |-> type, data |-> data, start_time |-> start_time,
     input_handler_id |-> handler_id, tags |-> {}, mutation_count |-> 0,
     privacy |-> "PUBLIC", entry_uuid_override |-> uuid_override,
     entry_hash_override |-> hash_override]
NoRecord == Entry("text", "", 0, "", NoOverride, NoOverride)

\* accepted is history: the time of the last candidate the loop of
\* resolve_monotonicity found within the day bounds, -1 before the first.
NoPage == [stage |-> "idle", i |-> 0, cur_time |-> -1, accepted |-> -1]

\* Notion reports last_edited_time to the minute; the connector rechecks a
\* page recheck_interval seconds after it processed an edit of it.
Minute == 60 * 1000
recheck_interval == 90
NotionHorizon == day_start_ms + MaxMinutes * Minute

\* pages_collection.find_one({"id": page.id}): None, or the document.
NoPageData == [found |-> FALSE, last_edited_time |-> 0, recheck_time |-> 0]

\* The locals of NotionInputHandler.trigger for the day page: the
\* last_edit_time_ms of the page object get_pages returned, the pair
\* page_has_updated returned, the index of the candidate the insert loop is
\* at, and what is left of removed_block_rep_ids.  History: the ids stored
\* when process_day_page ran and the documents of the ids it returned as
\* removed, how the last
\* trigger ended, the number of times the page was reported as due for a
\* recheck since an edit of it was processed, and the number of triggers that
\* found the page updated.
NotionIdle == [pc |-> "idle", last_edit_time_ms |-> 0, is_recheck |-> FALSE, i |-> 0,
               removed_block_rep_ids |-> {}, entry_insertion_log |-> <<>>,
               previous_block_ids |-> {}, removed |-> {}, outcome |-> "none",
               rechecks |-> 0, run |-> 0]

\* An empty day page created at the start of its day, and empty collections.
InitTracking ==
    /\ notion_site = [now |-> day_start_ms, last_edit_time_ms |-> day_start_ms, edits |-> 0]
    /\ pages_collection = NoPageData
    /\ entries_collection = {}
    /\ notion_trigger = NotionIdle

InitConnectors ==
    /\ invocation = NoInvocation
    /\ trigger_defaults = <<>>
    /\ page_blocks = <<>>
    /\ notion_entries = <<>>
    /\ notion_pc = NoPage
    /\ record = NoRecord
    /\ dumps = <<>>
    /\ InitTracking

\* ------------------------------------------------------------- operations
StoredDoc(d, uuid) == IF Stored(d, uuid) THEN d[IndexOf(d, uuid)] ELSE NoDoc

NoEntry == EntryABC("text", "", NoGroup)

\* The Entry objects a caller can hand to the manager.  A text entry is freshly
\* constructed (mutation_count 0) or was inserted before, which left a
\* mutation_count on it.  A file entry is freshly constructed (a local path as
\* file id) or was inserted before, which left the store's file id on it.
Held(types, datas, groups, counts) ==
    UNION {{[EntryABC(t, d, g) EXCEPT !.mutation_count = c] :
              d \in datas \cap DataOf(t), g \in groups,
              c \in IF t \in FileTypes THEN {0} ELSE counts} : t \in types}
    \cup
    UNION {{[EntryABC(t, d, g) EXCEPT !.mutation_count = c, !.file_id = next_file_id] :
              d \in datas \cap DataOf(t), g \in groups,
              c \in IF next_file_id > 0 THEN counts ELSE {}} : t \in types \cap FileTypes}

\* The state after an operation that ended in call state r, and its record.
Finish(r, op, e, uuid, group, mutate, delete_old_file) ==
    /\ db' = r.db
    /\ files' = r.files
    /\ next_file_id' = r.next_file_id
    /\ last' = [op |-> op, entry |-> e, uuid |-> uuid, group |-> group,
                mutate |-> mutate, delete_old_file |-> delete_old_file,
                existed |-> IF op = "delete_group"
                               THEN \E i \in 1..Len(db) : db[i].group_id = group
                               ELSE Stored(db, uuid),
                exc |-> r.exc, ret |-> r.ret, faulted |-> r.faulted, calls |-> r.n]

MayOverwrite(e, mutate) ==
    (mutate /\ Stored(db, entry_uuid(e)))
        => StoredDoc(db, entry_uuid(e)).mutation_count < MaxMut

\* EntryManager.insert_entry(entry, mutate).
Insert(e, mutate, fault) ==
    /\ e.entry_type \in NonFileTypes
    /\ MayOverwrite(e, mutate)
    /\ Finish(EntryManager_insert_entry(CallState(e, fault), mutate),
              "insert", e, entry_uuid(e), e.group_id, mutate, FALSE)
    /\ UNCHANGED manager_vars
    /\ UNCHANGED connector_vars

\* EntryManager.insert_file_entry(file_entry, mutate, delete_old_file).
InsertFile(e, mutate, delete_old_file, fault) ==
    /\ e.entry_type \in FileTypes
    /\ MayOverwrite(e, mutate)
    /\ next_file_id < MaxFiles
    /\ Finish(EntryManager_insert_file_entry(CallState(e, fault), mutate, delete_old_file),
              "insert_file", e, entry_uuid(e), e.group_id, mutate, delete_old_file)
    /\ UNCHANGED manager_vars
    /\ UNCHANGED connector_vars

\* ResourceManager.insert_entry(entry): a write straight to the document store.
StoreInsert(e, fault) ==
    /\ e.entry_type \in NonFileTypes
    /\ Finish(Mongo_insert_entry(CallState(e, fault), e),
              "put", e, entry_uuid(e), e.group_id, FALSE, FALSE)
    /\ UNCHANGED manager_vars
    /\ UNCHANGED connector_vars

\* EntryManager.delete_entry(entry_uuid).
Delete(uuid, fault) ==
    /\ Finish(EntryManager_delete_entry(CallState(NoEntry, fault), uuid),
              "delete", NoEntry, uuid, StoredDoc(db, uuid).group_id, FALSE, FALSE)
    /\ UNCHANGED manager_vars
    /\ UNCHANGED connector_vars

\* EntryManager.delete_group(group_id).
DeleteGroup(g, fault) ==
    /\ Finish(EntryManager_delete_group(CallState(NoEntry, fault), g),
              "delete_group", NoEntry, NoDoc.entry_uuid, g, FALSE, FALSE)
    /\ UNCHANGED manager_vars
    /\ UNCHANGED connector_vars

InitStorage ==
    /\ db = <<>>
    /\ files = {}
    /\ next_file_id = 0
    /\ last = [op |-> "init", entry |-> NoEntry, uuid |-> NoDoc.entry_uuid,
               group |-> NoGroup, mutate |-> FALSE, delete_old_file |-> FALSE,
               existed |-> FALSE, exc |-> NoExc, ret |-> FALSE, faulted |-> FALSE,
               calls |-> 0]

Init == InitStorage /\ InitConnectors /\ InitManager(NoIntervals)

\* Number of storage calls on the longest path of each operation.
InsertCalls == 3         \* find_one, delete_one, insert_one
InsertFileCalls == 6     \* find_one, upload_file, insert_entry (3), delete_object
PutCalls == 1
DeleteCalls == 3         \* find_one, delete_object, delete_one

\* Entry Manager with re-used entry objects, overwrites and payload swaps.
OneText == {"a"}
OneGroup == {"g1", NoGroup}
Counts == 0..MaxMut

Next ==
    \/ \E e \in Held(NonFileTypes, OneText, OneGroup, Counts), m \in BOOLEAN,
          f \in 0..InsertCalls : Insert(e, m, f)
    \/ \E e \in Held(FileTypes, FileNames, {"g1"}, Counts), m \in BOOLEAN,
          dof \in BOOLEAN, f \in 0..InsertFileCalls : InsertFile(e, m, dof, f)
    \/ \E e \in Held(NonFileTypes, OneText, OneGroup, Counts), f \in 0..PutCalls :
          StoreInsert(e, f)
    \/ \E u \in {entry_uuid(e) : e \in Held(EntryTypes, OneText \cup FileNames, {NoGroup}, {0})},
          f \in 0..DeleteCalls : Delete(u, f)
    \/ \E f \in 0..MaxFault : DeleteGroup("g1", f)

Spec == Init /\ [][Next]_vars

\* Groups of freshly constructed entries, built by inserts on a working
\* storage, and deleted one by one or by group on a storage that may fail.
NextGroup ==
    \/ \E e \in Held(NonFileTypes, Texts, Groups \cup {NoGroup}, {0}) : Insert(e, FALSE, 0)
    \/ \E e \in Held(FileTypes, FileNames, Groups \cup {NoGroup}, {0}) :
          InsertFile(e, FALSE, TRUE, 0)
    \/ \E u \in UUIDs, f \in 0..DeleteCalls : Delete(u, f)
    \/ \E g \in Groups, f \in 0..MaxFault : DeleteGroup(g, f)

SpecGroup == Init /\ [][NextGroup]_vars

\* ------------------------------------------------ scheduler: operations
Outcomes == {"returned", "raised"}  \* how an awaited trigger handler ends

\* Mutant: the new pair replaces the connector's log.
record_trigger_error_replaces(handler_id, error) ==
    [trigger_errors EXCEPT ![handler_id] = <<<<now, error>>>>]

\* record_trigger_error(handler_id, error): the connector's log after the append.
record_trigger_error(handler_id, error) ==
    [trigger_errors EXCEPT ![handler_id] = Append(@, <<now, error>>)]

\* The try / except Exception around an awaited handler: the error log and the
\* exceptions that leave the coroutine, after a handler that ended in outcome.
guarded(handler_id, outcome) ==
    [errors |-> IF outcome = "raised"
                   THEN record_trigger_error(handler_id, HandlerError)
                   ELSE trigger_errors,
     escaped |-> escaped]

\* interval_trigger_handler(handler_id), from the return of the awaited handler.
interval_trigger_handler(handler_id, outcome) == guarded(handler_id, outcome)

\* on_trigger_request(handler_id, ...), from the return of the awaited handler:
\* the insertion log is returned, or None after a recorded error.
on_trigger_request(handler_id, outcome) ==
    [errors |-> guarded(handler_id, outcome).errors,
     escaped |-> guarded(handler_id, outcome).escaped,
     result |-> IF outcome = "raised" THEN "None" ELSE "log"]

\* Mutant: a connector is due as soon as its interval is reached.
interval_due_when_reached(handler_id, time_ms) ==
    /\ check_intervals[handler_id] # None
    /\ time_ms - last_updated[handler_id] >= check_intervals[handler_id] * 1000

\* Mutant: no connector is due once another connector has an error on its log.
interval_due_while_healthy(handler_id, time_ms) ==
    /\ check_intervals[handler_id] # None
    /\ time_ms - last_updated[handler_id] > check_intervals[handler_id] * 1000
    /\ \A g \in Handlers \ {handler_id} : trigger_errors[g] = <<>>

\* Mutant: a connector with an error on its log is no longer due.
interval_due_unless_failed(handler_id, time_ms) ==
    /\ check_intervals[handler_id] # None
    /\ time_ms - last_updated[handler_id] > check_intervals[handler_id] * 1000
    /\ trigger_errors[handler_id] = <<>>

\* Mutant: a connector is due only when no trigger of another connector is in flight.
interval_due_when_idle(handler_id, time_ms) ==
    /\ check_intervals[handler_id] # None
    /\ time_ms - last_updated[handler_id] > check_intervals[handler_id] * 1000
    /\ \A g \in Handlers \ {handler_id} : tasks[g] = 0

\* Mutant: a connector is due only when none of its interval triggers is in flight.
interval_due_unless_running(handler_id, time_ms) ==
    /\ check_intervals[handler_id] # None
    /\ time_ms - last_updated[handler_id] > check_intervals[handler_id] * 1000
    /\ tasks[handler_id] = 0

\* The test of the watch loop on one connector at clock reading time_ms.
interval_due(handler_id, time_ms) ==
    /\ check_intervals[handler_id] # None
    /\ time_ms - last_updated[handler_id] > check_intervals[handler_id] * 1000

\* Mutant: the loop does not look at the stop event.
loop_continues_regardless == TRUE

\* while not self.stop_event.is_set()
loop_continues == ~stop_event

\* One iteration of the polling loop of a watcher with locals w on a file:
\* the file is opened, its size compared with last_size, then the watcher
\* sleeps; a file that cannot be opened breaks out of the loop.
poll(w, file) ==
    IF file.exists /\ file.openable
        THEN [w EXCEPT !.can_open = TRUE,
                       !.size_stable = (w.size_stable \/ file.size = w.last_size),
                       !.last_size = file.size,
                       !.polls = IF w.polls < 2 THEN w.polls + 1 ELSE 2,
                       !.pc = "sleeping"]
        ELSE [w EXCEPT !.can_open = FALSE,
                       !.polls = IF w.polls < 2 THEN w.polls + 1 ELSE 2,
                       !.pc = "broke"]

\* Step 2 up to the await of the handler: the handler is looked up by the name
\* of the file's directory (KeyError ends the task) and invoked.
trigger_new_file(w, path) ==
    IF path.parent \in Handlers THEN [w EXCEPT !.pc = "handling"]
                                ELSE [w EXCEPT !.pc = "failed"]

\* start_file_trigger_watch from the test of its while loop to the next await.
watch_loop(w, path, file) ==
    IF w.size_stable /\ w.can_open
        THEN trigger_new_file(w, path)
        ELSE LET v == poll(w, file) IN
             IF v.pc = "broke" THEN trigger_new_file(v, path) ELSE v

\* A watcher of path went on to locals w: it awaits, or its task has ended.
Continue(path, w) ==
    /\ watchers' = [watchers EXCEPT ![path] = IF w.pc = "failed" THEN NoWatcher ELSE w]
    /\ escaped' = IF w.pc = "failed"
                     THEN escaped \cup {<<"new_file", path.parent, KeyError>>}
                     ELSE escaped

\* start_watching(): the task of the watch loop is created.
StartWatching ==
    /\ watch_task = "none"
    /\ watch_task' = "created"
    /\ done' = NoTrigger
    /\ UNCHANGED <<now, check_intervals, last_updated, trigger_errors, stop_event, tasks,
                   requests, scan_tasks, input_folder, currently_processing_files,
                   watchers, escaped, logs>>
    /\ UNCHANGED storage_vars
    /\ UNCHANGED connector_vars

\* One iteration of _start_watching, dt ms after the previous one: an interval
\* trigger task is created for every connector that is due, then the scan task,
\* then the loop waits for the stop event or the sleep interval.
Tick(dt) ==
    /\ watch_task \in {"created", "sleeping"}
    /\ loop_continues
    /\ now + dt <= Horizon
    /\ \A h \in Handlers : interval_due(h, now + dt) => tasks[h] < MaxInFlight
    /\ now' = now + dt
    /\ last_updated' = [h \in Handlers |->
                            IF interval_due(h, now + dt) THEN now + dt ELSE last_updated[h]]
    /\ tasks' = [h \in Handlers |->
                    IF interval_due(h, now + dt) THEN tasks[h] + 1 ELSE tasks[h]]
    /\ scan_tasks' = TRUE
    /\ watch_task' = "sleeping"
    /\ done' = NoTrigger
    /\ UNCHANGED <<check_intervals, trigger_errors, stop_event, requests, input_folder,
                   currently_processing_files, watchers, escaped, logs>>
    /\ UNCHANGED storage_vars
    /\ UNCHANGED connector_vars

\* stop_watching() up to its await: the stop event is set.
StopWatching ==
    /\ watch_task # "none"
    /\ ~stop_event
    /\ stop_event' = TRUE
    /\ done' = NoTrigger
    /\ UNCHANGED <<now, check_intervals, last_updated, trigger_errors, watch_task, tasks,
                   requests, scan_tasks, input_folder, currently_processing_files,
                   watchers, escaped, logs>>
    /\ UNCHANGED storage_vars
    /\ UNCHANGED connector_vars

\* The watch loop finds the stop event set and ends; stop_watching returns.
LoopExit ==
    /\ watch_task \in {"created", "sleeping"}
    /\ ~loop_continues
    /\ watch_task' = "done"
    /\ done' = NoTrigger
    /\ UNCHANGED <<now, check_intervals, last_updated, trigger_errors, stop_event, tasks,
                   requests, scan_tasks, input_folder, currently_processing_files,
                   watchers, escaped, logs>>
    /\ UNCHANGED storage_vars
    /\ UNCHANGED connector_vars

\* The handler awaited by an interval_trigger_handler task returns or raises.
TriggerDone(h, outcome) ==
    /\ tasks[h] > 0
    /\ outcome = "raised" => Len(trigger_errors[h]) < MaxErrors
    /\ trigger_errors' = interval_trigger_handler(h, outcome).errors
    /\ escaped' = interval_trigger_handler(h, outcome).escaped
    /\ tasks' = [tasks EXCEPT ![h] = @ - 1]
    /\ done' = [kind |-> "interval", handler |-> h, name |-> "", outcome |-> outcome]
    /\ UNCHANGED <<now, check_intervals, last_updated, stop_event, watch_task, requests,
                   scan_tasks, input_folder, currently_processing_files, watchers, logs>>
    /\ UNCHANGED storage_vars
    /\ UNCHANGED connector_vars

\* A caller awaits on_trigger_request(handler_id, file, metadata).
Request(h) ==
    /\ requests[h] # "running"
    /\ requests' = [requests EXCEPT ![h] = "running"]
    /\ done' = NoTrigger
    /\ UNCHANGED <<now, check_intervals, last_updated, trigger_errors, stop_event,
                   watch_task, tasks, scan_tasks, input_folder,
                   currently_processing_files, watchers, escaped, logs>>
    /\ UNCHANGED storage_vars
    /\ UNCHANGED connector_vars

\* The handler awaited by on_trigger_request returns or raises.
RequestDone(h, outcome) ==
    /\ requests[h] = "running"
    /\ outcome = "raised" => Len(trigger_errors[h]) < MaxErrors
    /\ trigger_errors' = on_trigger_request(h, outcome).errors
    /\ escaped' = on_trigger_request(h, outcome).escaped
    /\ requests' = [requests EXCEPT ![h] = on_trigger_request(h, outcome).result]
    /\ done' = [kind |-> "request", handler |-> h, name |-> "", outcome |-> outcome]
    /\ UNCHANGED <<now, check_intervals, last_updated, stop_event, watch_task, tasks,
                   scan_tasks, input_folder, currently_processing_files, watchers, logs>>
    /\ UNCHANGED storage_vars
    /\ UNCHANGED connector_vars

\* Mutant: a scan that does not look at currently_processing_files.
being_processed_unseen(path) == FALSE

\* scan_input_dir: if file_path in self.currently_processing_files: continue
being_processed(path) == path \in currently_processing_files

\* scan_input_dir(): a watcher task is created for every file of the input
\* directory whose path is not in currently_processing_files.
Scan ==
    /\ scan_tasks
    /\ scan_tasks' = FALSE
    /\ watchers' = [p \in Paths |->
                       IF input_folder[p].exists /\ ~being_processed(p)
                           THEN [NoWatcher EXCEPT !.pc = "created"]
                           ELSE watchers[p]]
    /\ done' = NoTrigger
    /\ UNCHANGED <<now, check_intervals, last_updated, trigger_errors, stop_event,
                   watch_task, tasks, requests, input_folder, currently_processing_files,
                   escaped, logs>>
    /\ UNCHANGED storage_vars
    /\ UNCHANGED connector_vars

\* start_file_trigger_watch(file_path, handler_id) from its start to its first await.
WatchStart(p) ==
    /\ watchers[p].pc = "created"
    /\ IF p \in currently_processing_files
          THEN /\ watchers' = [watchers EXCEPT ![p] = NoWatcher]
               /\ UNCHANGED <<currently_processing_files, escaped>>
          ELSE /\ currently_processing_files' = currently_processing_files \cup {p}
               /\ Continue(p, watch_loop(NoWatcher, p, input_folder[p]))
    /\ done' = NoTrigger
    /\ UNCHANGED <<now, check_intervals, last_updated, trigger_errors, stop_event,
                   watch_task, tasks, requests, scan_tasks, input_folder, logs>>
    /\ UNCHANGED storage_vars
    /\ UNCHANGED connector_vars

\* A watcher wakes from asyncio.sleep(0.5) and runs to its next await.
WatchWake(p) ==
    /\ watchers[p].pc = "sleeping"
    /\ Continue(p, watch_loop(watchers[p], p, input_folder[p]))
    /\ done' = NoTrigger
    /\ UNCHANGED <<now, check_intervals, last_updated, trigger_errors, stop_event,
                   watch_task, tasks, requests, scan_tasks, input_folder,
                   currently_processing_files, logs>>
    /\ UNCHANGED storage_vars
    /\ UNCHANGED connector_vars

\* Mutant: the file is unlinked only after a handler that returned.
finish_watch_keeps_failed(path, outcome) ==
    IF input_folder[path].exists /\ outcome = "returned"
        THEN [folder |-> [input_folder EXCEPT ![path] = NoFile],
              processing |-> currently_processing_files \ {path},
              raised |-> {}]
        ELSE [folder |-> input_folder,
              processing |-> currently_processing_files \ {path},
              raised |-> {}]

\* file_path.unlink(); self.currently_processing_files.remove(file_path): the
\* input directory, the set and the exception raised, after a handler that
\* ended in outcome.  unlink raises for a file that is no longer there.
finish_watch(path, outcome) ==
    IF input_folder[path].exists
        THEN [folder |-> [input_folder EXCEPT ![path] = NoFile],
              processing |-> currently_processing_files \ {path},
              raised |-> {}]
        ELSE [folder |-> input_folder,
              processing |-> currently_processing_files,
              raised |-> {<<"new_file", path.parent, FileNotFoundError>>}]

\* The new-file handler awaited by a watcher returns or raises; the watcher
\* unlinks the file and takes its path out of currently_processing_files.
HandlerDone(p, outcome) ==
    /\ watchers[p].pc = "handling"
    /\ outcome = "raised" => Len(trigger_errors[p.parent]) < MaxErrors
    /\ trigger_errors' = guarded(p.parent, outcome).errors
    /\ input_folder' = finish_watch(p, outcome).folder
    /\ currently_processing_files' = finish_watch(p, outcome).processing
    /\ escaped' = guarded(p.parent, outcome).escaped \cup finish_watch(p, outcome).raised
    /\ watchers' = [watchers EXCEPT ![p] = NoWatcher]
    /\ done' = [kind |-> "new_file", handler |-> p.parent, name |-> p.name,
                outcome |-> outcome]
    /\ UNCHANGED <<now, check_intervals, last_updated, stop_event, watch_task, tasks,
                   requests, scan_tasks, logs>>
    /\ UNCHANGED storage_vars
    /\ UNCHANGED connector_vars

\* Somebody starts to write a file into the input directory.
PlaceFile(p, size, openable) ==
    /\ ~input_folder[p].exists
    /\ input_folder' = [input_folder EXCEPT
                           ![p] = [exists |-> TRUE, size |-> size, openable |-> openable]]
    /\ done' = NoTrigger
    /\ UNCHANGED <<now, check_intervals, last_updated, trigger_errors, stop_event,
                   watch_task, tasks, requests, scan_tasks, currently_processing_files,
                   watchers, escaped, logs>>
    /\ UNCHANGED storage_vars
    /\ UNCHANGED connector_vars

\* The writer of a file appends to it.
Grow(p) ==
    /\ input_folder[p].exists
    /\ input_folder[p].size < MaxSize
    /\ input_folder' = [input_folder EXCEPT ![p].size = @ + 1]
    /\ done' = NoTrigger
    /\ UNCHANGED <<now, check_intervals, last_updated, trigger_errors, stop_event,
                   watch_task, tasks, requests, scan_tasks, currently_processing_files,
                   watchers, escaped, logs>>
    /\ UNCHANGED storage_vars
    /\ UNCHANGED connector_vars

\* The permissions of a file change.
Chmod(p) ==
    /\ input_folder[p].exists
    /\ input_folder' = [input_folder EXCEPT ![p].openable = ~@]
    /\ done' = NoTrigger
    /\ UNCHANGED <<now, check_intervals, last_updated, trigger_errors, stop_event,
                   watch_task, tasks, requests, scan_tasks, currently_processing_files,
                   watchers, escaped, logs>>
    /\ UNCHANGED storage_vars
    /\ UNCHANGED connector_vars

\* A file is moved away or removed, by its writer or by the handler it was given to.
RemoveFile(p) ==
    /\ input_folder[p].exists
    /\ input_folder' = [input_folder EXCEPT ![p] = NoFile]
    /\ done' = NoTrigger
    /\ UNCHANGED <<now, check_intervals, last_updated, trigger_errors, stop_event,
                   watch_task, tasks, requests, scan_tasks, currently_processing_files,
                   watchers, escaped, logs>>
    /\ UNCHANGED storage_vars
    /\ UNCHANGED connector_vars

\* InputHandler.insert_entry(entry_insertion_log, entry): the item appended to
\* the insertion log for an insert that ended in call state r.
EntryInsertionLog(e, r) ==
    [entry_uuid |-> entry_uuid(e), success |-> ~Raised(r), mutated |-> (~Raised(r)) /\ r.ret,
     error |-> r.exc]

\* An interval trigger in flight builds entry e, inserts it with the helper of
\* its connector (mutate = True) and returns; the insertion log is handed to
\* _on_entries_inserted.
TriggerInserts(h, e, fault) ==
    /\ tasks[h] > 0
    /\ Len(logs) < MaxWrites
    /\ e.entry_type \in NonFileTypes
    /\ Finish(EntryManager_insert_entry(CallState(e, fault), TRUE),
              "insert", e, entry_uuid(e), e.group_id, TRUE, FALSE)
    /\ logs' = Append(logs, EntryInsertionLog(e,
                   EntryManager_insert_entry(CallState(e, fault), TRUE)))
    /\ tasks' = [tasks EXCEPT ![h] = @ - 1]
    /\ done' = [kind |-> "interval", handler |-> h, name |-> "", outcome |-> "returned"]
    /\ UNCHANGED <<now, check_intervals, last_updated, trigger_errors, stop_event,
                   watch_task, requests, scan_tasks, input_folder,
                   currently_processing_files, watchers, escaped>>
    /\ UNCHANGED connector_vars

\* Two kinds of writers of one identity: a caller of the Entry Manager creates
\* it, the interval triggers of connector h1, which overlap, overwrite it.
OnlyFirst == [h \in Handlers |-> IF h = "h1" THEN 1 ELSE None]
Delays == {sleep_interval, sleep_interval + Jitter}

InitWriters == InitStorage /\ InitConnectors /\ InitManager(OnlyFirst)

NextWriters ==
    \/ StartWatching
    \/ \E dt \in Delays : Tick(dt)
    \/ Scan
    \/ \E e \in Held(NonFileTypes, Texts, {NoGroup}, {0}) : Insert(e, FALSE, 0)
    \/ \E e \in Held(NonFileTypes, Texts, {NoGroup}, {0}) : TriggerInserts("h1", e, 0)

SpecWriters == InitWriters /\ [][NextWriters]_vars

\* The watch loop and the interval triggers of connectors that return or
\* raise, under every configuration of check intervals.
Configs == [Handlers -> Intervals \cup {None}]

InitSched == InitStorage /\ InitConnectors /\ \E cfg \in Configs : InitManager(cfg)

NextSched ==
    \/ StartWatching
    \/ \E dt \in Delays : Tick(dt)
    \/ Scan
    \/ \E h \in Handlers, o \in Outcomes : TriggerDone(h, o)
    \/ StopWatching
    \/ LoopExit

SpecSched == InitSched /\ [][NextSched]_vars

\* The three kinds of trigger side by side, with handlers that return or
\* raise: interval triggers of and requests to connector h1, and a file that
\* arrives complete in the input directory of connector h2.
Both == [h \in Handlers |-> 1]
Arrivals == {[parent |-> "h2", name |-> "f"]}

InitTriggers == InitStorage /\ InitConnectors /\ InitManager(OnlyFirst)

NextTriggers ==
    \/ StartWatching
    \/ Tick(sleep_interval)
    \/ Scan
    \/ \E h \in Handlers, o \in Outcomes : TriggerDone(h, o)
    \/ Request("h1")
    \/ \E o \in Outcomes : RequestDone("h1", o)
    \/ \E p \in Arrivals : PlaceFile(p, 1, TRUE)
    \/ \E p \in Paths : WatchStart(p)
    \/ \E p \in Paths : WatchWake(p)
    \/ \E p \in Paths, o \in Outcomes : HandlerDone(p, o)

SpecTriggers == InitTriggers /\ [][NextTriggers]_vars

\* Slow connectors: two connectors on an interval, a request and a file watch,
\* with handlers that take any time to return.
InitSlow == InitStorage /\ InitConnectors /\ InitManager(Both)

NextSlow ==
    \/ StartWatching
    \/ Tick(sleep_interval)
    \/ Scan
    \/ \E h \in Handlers : TriggerDone(h, "returned")
    \/ Request("h1")
    \/ RequestDone("h1", "returned")
    \/ \E p \in Arrivals : PlaceFile(p, 1, TRUE)
    \/ \E p \in Paths : WatchStart(p)
    \/ \E p \in Paths : WatchWake(p)
    \/ \E p \in Paths : HandlerDone(p, "returned")

SpecSlow == InitSlow /\ [][NextSlow]_vars

\* The input directory: a file of connector h1 that is written, grows, changes
\* permissions and disappears while the watch loop scans and its watcher
\* polls; no connector has a check interval.
Inbox == {[parent |-> "h1", name |-> "f"]}

InitFiles == InitStorage /\ InitConnectors /\ InitManager(NoIntervals)

NextFiles ==
    \/ StartWatching
    \/ Tick(sleep_interval)
    \/ Scan
    \/ \E p \in Inbox, size \in 0..1, openable \in BOOLEAN : PlaceFile(p, size, openable)
    \/ \E p \in Inbox : Grow(p)
    \/ \E p \in Inbox : Chmod(p)
    \/ \E p \in Inbox : RemoveFile(p)
    \/ \E p \in Paths : WatchStart(p)
    \/ \E p \in Paths : WatchWake(p)
    \/ \E p \in Paths, o \in Outcomes : HandlerDone(p, o)
    \/ StopWatching
    \/ LoopExit

SpecFiles == InitFiles /\ [][NextFiles]_vars

\* The same on an event loop that runs what is ready: the watch loop ticks
\* while it is not stopped, created tasks start, sleeping watchers wake.
\* Nothing is assumed of the writer of the file nor of the handlers, which may
\* never return.
SpecInbox ==
    /\ InitFiles
    /\ [][NextFiles]_vars
    /\ WF_vars(Tick(sleep_interval))
    /\ WF_vars(Scan)
    /\ \A p \in Inbox : WF_vars(WatchStart(p)) /\ WF_vars(WatchWake(p))

\* ------------------------------------------------- connectors: insertion
\* Mutant: a helper that lets the exception of the Entry Manager through.
\* The helpers' try / except around the call of the Entry Manager that ended
\* in r: one item appended, success or failure, and nothing raised.
logged(entry_insertion_log, st, r) ==
    IF Raised(r)
        THEN [entry_insertion_log |-> Append(entry_insertion_log,
                  [entry_uuid |-> entry_uuid(st.entry), success |-> FALSE,
                   mutated |-> FALSE, error |-> r.exc]),
              r |-> r, exc |-> NoExc]
        ELSE [entry_insertion_log |-> Append(entry_insertion_log,
                  [entry_uuid |-> entry_uuid(st.entry), success |-> TRUE,
                   mutated |-> r.ret, error |-> NoExc]),
              r |-> r, exc |-> NoExc]

\* Mutant: a try / except that lets the exception of the Entry Manager through.
reraised(entry_insertion_log, st, r) ==
    IF Raised(r)
        THEN [entry_insertion_log |-> entry_insertion_log, r |-> r, exc |-> r.exc]
        ELSE logged(entry_insertion_log, st, r)

InputHandler_insert_entry_reraises(entry_insertion_log, st, mutate) ==
    reraised(entry_insertion_log, st, EntryManager_insert_entry(st, mutate))

\* InputHandler.insert_entry(entry_insertion_log, entry, mutate): the list
\* after the call, the call state the Entry Manager ended in, and the
\* exception that leaves the helper.
InputHandler_insert_entry(entry_insertion_log, st, mutate) ==
    logged(entry_insertion_log, st, EntryManager_insert_entry(st, mutate))

\* InputHandler.insert_file_entry(entry_insertion_log, file_entry, mutate).
InputHandler_insert_file_entry(entry_insertion_log, st, mutate) ==
    logged(entry_insertion_log, st, EntryManager_insert_file_entry(st, mutate, TRUE))

\* The list a running handler hands to the helpers.  SensorInfoInputHandler
\* calls self.trigger() without its entry_insertion_log, so trigger works on
\* its default argument, one list object made when the function is defined.
UsesDefault(c) == c = "sensor_info"
handler_log(c) == IF UsesDefault(c) THEN trigger_defaults ELSE invocation.entry_insertion_log

\* InputHandler.on_trigger_interval / on_trigger_request / on_trigger_new_file
\* up to the await of the handler: a fresh entry_insertion_log.
TriggerStart(c, k) ==
    /\ invocation.pc # "running"
    /\ invocation.run < MaxRuns
    /\ invocation' = [NoInvocation EXCEPT !.run = invocation.run + 1, !.connector = c,
                                          !.kind = k, !.pc = "running"]
    /\ UNCHANGED <<trigger_defaults, page_blocks, notion_entries, notion_pc, record, dumps>>
    /\ UNCHANGED tracking_vars
    /\ UNCHANGED storage_vars
    /\ UNCHANGED manager_vars

\* The state after the running handler called a helper that ended in h.
Attempted(e, h) ==
    /\ invocation' = [invocation EXCEPT
           !.attempted = Append(@, entry_uuid(e)),
           !.entry_insertion_log = IF UsesDefault(invocation.connector)
                                       THEN @ ELSE h.entry_insertion_log,
           !.pc = IF h.exc # NoExc THEN "raised" ELSE @]
    /\ trigger_defaults' = IF UsesDefault(invocation.connector)
                               THEN h.entry_insertion_log ELSE trigger_defaults
    /\ UNCHANGED <<page_blocks, notion_entries, notion_pc, record, dumps>>
    /\ UNCHANGED tracking_vars
    /\ UNCHANGED manager_vars

\* The handler builds entry e and calls self.insert_entry(log, e).  The
\* _on_trigger_new_file of SensorInfoInputHandler is empty.
Attempt(e, fault) ==
    /\ invocation.pc = "running"
    /\ Len(invocation.attempted) < MaxBatch
    /\ UsesDefault(invocation.connector) =>
           invocation.kind # "new_file" /\ Len(trigger_defaults) < MaxDefaults
    /\ e.entry_type \in NonFileTypes
    /\ MayOverwrite(e, TRUE)
    /\ \E h \in {InputHandler_insert_entry(handler_log(invocation.connector),
                                           CallState(e, fault), TRUE)} :
           /\ Finish(h.r, "insert", e, entry_uuid(e), e.group_id, TRUE, FALSE)
           /\ Attempted(e, h)

\* The handler builds file entry e and calls self.insert_file_entry(log, e).
AttemptFile(e, fault) ==
    /\ invocation.pc = "running"
    /\ Len(invocation.attempted) < MaxBatch
    /\ ~UsesDefault(invocation.connector)
    /\ e.entry_type \in FileTypes
    /\ MayOverwrite(e, TRUE)
    /\ next_file_id < MaxFiles
    /\ \E h \in {InputHandler_insert_file_entry(handler_log(invocation.connector),
                                                CallState(e, fault), TRUE)} :
           /\ Finish(h.r, "insert_file", e, entry_uuid(e), e.group_id, TRUE, TRUE)
           /\ Attempted(e, h)

\* The handler returns: the wrapper calls self.on_entries_inserted with its
\* entry_insertion_log.
TriggerReturn ==
    /\ invocation.pc = "running"
    /\ invocation' = [invocation EXCEPT !.pc = "returned", !.calls = @ + 1,
                                        !.reported = invocation.entry_insertion_log]
    /\ UNCHANGED <<trigger_defaults, page_blocks, notion_entries, notion_pc, record, dumps>>
    /\ UNCHANGED tracking_vars
    /\ UNCHANGED storage_vars
    /\ UNCHANGED manager_vars

\* The handler raises: the exception leaves the wrapper at its await.
TriggerRaise ==
    /\ invocation.pc = "running"
    /\ invocation' = [invocation EXCEPT !.pc = "raised"]
    /\ UNCHANGED <<trigger_defaults, page_blocks, notion_entries, notion_pc, record, dumps>>
    /\ UNCHANGED tracking_vars
    /\ UNCHANGED storage_vars
    /\ UNCHANGED manager_vars

\* Trigger invocations of the connectors, one after the other, on a storage
\* that may fail at any call.
InitBatches == InitStorage /\ InitConnectors /\ InitManager(NoIntervals)

\* The storage works, or fails at the first call of an insert (find_one) or
\* at the upload of a payload.
FirstCall == {0, 1}
Upload == {0, 2}

NextBatches ==
    \/ \E c \in Connectors, k \in TriggerKinds : TriggerStart(c, k)
    \/ \E e \in Held(NonFileTypes, OneText, {NoGroup}, {0}), f \in FirstCall : Attempt(e, f)
    \/ \E e \in Held(FileTypes, FileNames, {NoGroup}, {0}), f \in Upload : AttemptFile(e, f)
    \/ TriggerReturn
    \/ TriggerRaise

SpecBatches == InitBatches /\ [][NextBatches]_vars

\* ------------------------------------------------- connectors: identity
FileEntryTypes == {"generic_file", "text_file", "image_file", "video_file", "audio_file",
                   "pdf_file"}
SensorEntryTypes == {"geolocation", "accelerometer", "heart_rate", "sleep_state"}
AllEntryTypes == {"text", "fitbit_activity"} \cup FileEntryTypes \cup SensorEntryTypes

\* GenericFileEntry._entry_hash: file_name + file_type + str(file_metadata).
GenericFileEntry__entry_hash(e) == hash_text(<<e.data, ".bin", "{}">>)

\* EntryABC.entry_hash, inherited by the file entry types.
EntryABC_entry_hash(e) ==
    IF e.entry_hash_override # NoOverride
        THEN e.entry_hash_override
        ELSE GenericFileEntry__entry_hash(e)

\* The entry_hash property each entry class ends up with: TextEntry, the
\* sensor entries and FitbitActivityEntry define entry_hash themselves.
Entry_entry_hash(e) ==
    IF e.entry_type = "text" THEN hash_text(<<e.data>>)
    ELSE IF e.entry_type \in FileEntryTypes THEN EntryABC_entry_hash(e)
    ELSE hash_text(<<"model_dump_json", e.data>>)

\* GenericFileEntry._entry_uuid.
GenericFileEntry__entry_uuid(e) == <<"file", e.start_time, Entry_entry_hash(e)>>

\* EntryABC.entry_uuid, inherited by the file entry types.
EntryABC_entry_uuid(e) ==
    IF e.entry_uuid_override # NoOverride
        THEN e.entry_uuid_override
        ELSE GenericFileEntry__entry_uuid(e)

\* Mutant: a text identity that counts the overwrites.
TextEntry_entry_uuid_counts(e) ==
    <<"text", e.input_handler_id, e.start_time + e.mutation_count, Entry_entry_hash(e)>>

\* TextEntry.entry_uuid.
TextEntry_entry_uuid(e) ==
    <<"text", e.input_handler_id, e.start_time, Entry_entry_hash(e)>>

\* The entry_uuid property each entry class ends up with: TextEntry, the
\* sensor entries and FitbitActivityEntry define entry_uuid themselves.
Entry_entry_uuid(e) ==
    IF e.entry_type = "text" THEN TextEntry_entry_uuid(e)
    ELSE IF e.entry_type \in FileEntryTypes THEN EntryABC_entry_uuid(e)
    ELSE IF e.entry_type = "fitbit_activity"
        THEN <<"fitbit-activity", e.start_time, <<"logId", e.data>>>>
    ELSE <<IF e.entry_type = "geolocation" THEN "location" ELSE e.entry_type,
           e.start_time, Entry_entry_hash(e)>>

\* entry.model_dump(): the fields and the computed fields.
Entry_model_dump(e) ==
    [entry_uuid |-> Entry_entry_uuid(e), entry_hash |-> Entry_entry_hash(e),
     entry_type |-> e.entry_type, data |-> e.data, start_time |-> e.start_time,
     input_handler_id |-> e.input_handler_id, tags |-> e.tags,
     mutation_count |-> e.mutation_count, privacy |-> e.privacy,
     entry_uuid_override |-> e.entry_uuid_override,
     entry_hash_override |-> e.entry_hash_override]

\* Assignments to the mutable fields of the record held.
SetTags(tags) ==
    /\ record' = [record EXCEPT !.tags = tags]
    /\ UNCHANGED <<invocation, trigger_defaults, page_blocks, notion_entries, notion_pc, dumps>>
    /\ UNCHANGED tracking_vars
    /\ UNCHANGED storage_vars
    /\ UNCHANGED manager_vars

SetPrivacy(privacy) ==
    /\ record' = [record EXCEPT !.privacy = privacy]
    /\ UNCHANGED <<invocation, trigger_defaults, page_blocks, notion_entries, notion_pc, dumps>>
    /\ UNCHANGED tracking_vars
    /\ UNCHANGED storage_vars
    /\ UNCHANGED manager_vars

SetMutationCount(mutation_count) ==
    /\ record' = [record EXCEPT !.mutation_count = mutation_count]
    /\ UNCHANGED <<invocation, trigger_defaults, page_blocks, notion_entries, notion_pc, dumps>>
    /\ UNCHANGED tracking_vars
    /\ UNCHANGED storage_vars
    /\ UNCHANGED manager_vars

\* record.model_dump(), which evaluates entry_uuid and entry_hash.
Dump ==
    /\ Len(dumps) < MaxDumps
    /\ dumps' = Append(dumps, Entry_model_dump(record))
    /\ UNCHANGED <<invocation, trigger_defaults, page_blocks, notion_entries, notion_pc, record>>
    /\ UNCHANGED tracking_vars
    /\ UNCHANGED storage_vars
    /\ UNCHANGED manager_vars

\* A record of any entry type, with or without overrides, whose mutable fields
\* are assigned and which is dumped now and then.
RecordTypes == {"text", "image_file", "geolocation", "fitbit_activity"}
Overrides == {NoOverride, <<"paragraph", 1>>}
HashOverrides == {NoOverride, hash_text(<<"x">>)}
Records == {Entry(t, x, day_start_ms + 1, "ih1", u, h) :
              t \in RecordTypes, x \in OneText, u \in Overrides, h \in HashOverrides}

InitRecords ==
    /\ InitStorage
    /\ InitManager(NoIntervals)
    /\ invocation = NoInvocation
    /\ trigger_defaults = <<>>
    /\ page_blocks = <<>>
    /\ notion_entries = <<>>
    /\ notion_pc = NoPage
    /\ record \in Records
    /\ dumps = <<>>
    /\ InitTracking

NextRecords ==
    \/ \E tags \in {{}, {"t"}} \ {record.tags} : SetTags(tags)
    \/ \E privacy \in {"PUBLIC", "PRIVATE"} \ {record.privacy} : SetPrivacy(privacy)
    \/ \E c \in (0..MaxMut) \ {record.mutation_count} : SetMutationCount(c)
    \/ Dump

SpecRecords == InitRecords /\ [][NextRecords]_vars

\* ---------------------------------------------- connectors: Notion pages
InBounds(time_ms) == time_ms >= day_start_ms /\ time_ms <= day_end_ms

\* A block of a page as far as the pipeline reads it: paragraph.rich_text /
\* markdown_text as text (blank = no rich text), and for a media block the
\* start time in the metadata of its file (None when it has none).  A block
\* that was never edited has the last_edited_time it was created with.
NotionBlock(id, type, text, created_time_ms, file_time) ==
    [id |-> id, type |-> type, text |-> text, created_time_ms |-> created_time_ms,
     file_time |-> file_time, last_edit_time_ms |-> created_time_ms]

NotionEntry(rep_uuid, start_time, seq_id, notion_blocks) ==
    [rep_uuid |-> rep_uuid, start_time |-> start_time, seq_id |-> seq_id,
     notion_blocks |-> notion_blocks]

\* Python list indexing: notion_entries[idx] with idx counted from 0, a
\* negative idx from the end of the list.
item(ne, idx) ==
    IF idx >= 0 THEN ne[idx + 1]
                ELSE ne[Len(ne) + idx + 1]

\* while cur_entry >= 0 and notion_entries[cur_entry].start_time > start_time:
\*     cur_entry -= 1
RECURSIVE iterate_backwards(_, _, _)
iterate_backwards(ne, cur_entry, start_time) ==
    IF cur_entry >= 0 /\ item(ne, cur_entry).start_time > start_time
        THEN iterate_backwards(ne, cur_entry - 1, start_time)
        ELSE cur_entry

\* One iteration of the loop of resolve_monotonicity, for index i (from 0):
\* the list and cur_time after it.
resolve_iteration(ne, i, cur_time) ==
    LET entry == item(ne, i)
    IN  IF entry.start_time < day_start_ms \/ entry.start_time > day_end_ms
            THEN [notion_entries |-> [ne EXCEPT ![i + 1].start_time = cur_time],
                  cur_time |-> cur_time]
        ELSE IF entry.start_time < cur_time
            THEN LET cur_entry == iterate_backwards(ne, i - 1, entry.start_time)
                     new_time == item(ne, cur_entry).start_time
                 IN  [notion_entries |->
                          [j \in 1..Len(ne) |->
                              IF j - 1 >= cur_entry + 1 /\ j - 1 < i
                                  THEN [ne[j] EXCEPT !.start_time = new_time]
                                  ELSE ne[j]],
                      cur_time |-> new_time]
        ELSE [notion_entries |-> ne, cur_time |-> entry.start_time]

\* resolve_monotonicity(notion_entries, day_start_ms, day_end_ms) is called.
ResolveCall ==
    /\ notion_pc.stage = "split"
    /\ notion_pc' = [stage |-> "resolving", i |-> 0, cur_time |-> -1, accepted |-> -1]
    /\ UNCHANGED <<invocation, trigger_defaults, page_blocks, notion_entries, record, dumps>>
    /\ UNCHANGED tracking_vars
    /\ UNCHANGED storage_vars
    /\ UNCHANGED manager_vars

\* for i, entry in enumerate(notion_entries): one iteration.
ResolveIteration ==
    /\ notion_pc.stage = "resolving"
    /\ notion_pc.i < Len(notion_entries)
    /\ LET r == resolve_iteration(notion_entries, notion_pc.i, notion_pc.cur_time)
       IN  /\ notion_entries' = r.notion_entries
           /\ notion_pc' = [notion_pc EXCEPT
                  !.i = @ + 1, !.cur_time = r.cur_time,
                  !.accepted = IF InBounds(item(notion_entries, notion_pc.i).start_time)
                                   THEN item(notion_entries, notion_pc.i).start_time ELSE @]
    /\ UNCHANGED <<invocation, trigger_defaults, page_blocks, record, dumps>>
    /\ UNCHANGED tracking_vars
    /\ UNCHANGED storage_vars
    /\ UNCHANGED manager_vars

\* return notion_entries
ResolveReturn ==
    /\ notion_pc.stage = "resolving"
    /\ notion_pc.i = Len(notion_entries)
    /\ notion_pc' = [notion_pc EXCEPT !.stage = "resolved"]
    /\ UNCHANGED <<invocation, trigger_defaults, page_blocks, notion_entries, record, dumps>>
    /\ UNCHANGED tracking_vars
    /\ UNCHANGED storage_vars
    /\ UNCHANGED manager_vars

\* resolve_monotonicity on every list of up to MaxLen candidates whose start
\* times are before the day, in the day or after it, and on one longer list.
Times == {day_start_ms - 1, day_start_ms + 1, day_start_ms + 2, day_start_ms + 3,
          day_start_ms + 4, day_start_ms + 5, day_end_ms + 1}
Candidates(ts) ==
    [i \in 1..Len(ts) |-> NotionEntry(<<"paragraph", i>>, ts[i], i - 1,
                              <<NotionBlock(i, "paragraph", "a", ts[i], None)>>)]
\* The times [5, 3, 8, 2, 9] within the bounds [0, 100], as times of the day.
Example == <<day_start_ms + 3, day_start_ms + 2, day_start_ms + 4, day_start_ms + 1,
             day_start_ms + 5>>
CandidateLists(max_len) ==
    UNION {{Candidates(ts) : ts \in [1..n -> Times]} : n \in 0..max_len}
        \cup {Candidates(Example)}

InitResolve ==
    /\ InitStorage
    /\ InitManager(NoIntervals)
    /\ invocation = NoInvocation
    /\ trigger_defaults = <<>>
    /\ page_blocks = <<>>
    /\ notion_entries \in CandidateLists(MaxLen)
    /\ notion_pc = [NoPage EXCEPT !.stage = "split"]
    /\ record = NoRecord
    /\ dumps = <<>>
    /\ InitTracking

NextResolve ==
    \/ ResolveCall
    \/ ResolveIteration
    \/ ResolveReturn

SpecResolve == InitResolve /\ [][NextResolve]_vars

\* ------------------------------------- connectors: splitting a Notion page
block_type_clusters ==
    <<{"paragraph", "heading_1", "heading_2", "heading_3", "bulleted_list_item",
       "numbered_list_item", "quote", "code", "equation"},
      {"image"}, {"video"}, {"audio"}, {"file"}>>

\* Mutant: every cluster may hold several blocks.
clustering_allowed_everywhere == <<TRUE, TRUE, TRUE, TRUE, TRUE>>

clustering_allowed == <<TRUE, FALSE, FALSE, FALSE, FALSE>>

ValueError == "ValueError"

\* get_cluster_idx(block_type): the index, from 0, of the first cluster that
\* holds the type; None stands for raise ValueError.
get_cluster_idx(block_type) ==
    IF \E i \in 1..Len(block_type_clusters) : block_type \in block_type_clusters[i]
        THEN (CHOOSE i \in 1..Len(block_type_clusters) :
                  /\ block_type \in block_type_clusters[i]
                  /\ \A j \in 1..(i - 1) : block_type \notin block_type_clusters[j]) - 1
        ELSE None

\* parse_date_block(text): the offset in the day of a clock time, None for a
\* text that does not start with one.  re.match anchors the pattern at the
\* start of the text only, so a text that goes on after the clock time
\* parses as well.
ClockText == "0:01"
ClockTextPM == "1:30 pm"
ClockTextAndWords == "0:01 a"
parse_date_block(text) ==
    IF text = ClockText THEN (0 * 3600 + 1 * 60 + 0) * 1000
    ELSE IF text = ClockTextPM THEN ((1 + 12) * 3600 + 30 * 60 + 0) * 1000
    ELSE IF text = ClockTextAndWords THEN (0 * 3600 + 1 * 60 + 0) * 1000
    ELSE None

\* create_notion_entry(blocks, seq_id, group_id, start_time_override).
create_notion_entry(blocks, seq_id, start_time_override) ==
    LET start_time == IF start_time_override = None
                          THEN blocks[1].created_time_ms ELSE start_time_override
    IN  NotionEntry(<<blocks[1].type, blocks[1].id>>,
                    IF /\ blocks[1].type \in {"file", "image", "video", "audio"}
                       /\ blocks[1].file_time # None
                       /\ start_time_override = None
                        THEN blocks[1].file_time ELSE start_time,
                    seq_id, blocks)

\* The locals of split_page_blocks before its loop.
SplitLocals ==
    [cur_block_cluster |-> None, cur_notion_entry_blocks |-> <<>>, notion_entries |-> <<>>,
     start_time_override |-> None, exc |-> NoExc]

\* notion_entries.append(create_notion_entry(cur_notion_entry_blocks, ...)).
append_entry(s) ==
    Append(s.notion_entries,
           create_notion_entry(s.cur_notion_entry_blocks, Len(s.notion_entries),
                               s.start_time_override))

\* Mutant: a blank paragraph that is skipped.
blank_paragraph_skipped(s) == s

\* split_page_blocks, loop body for a blank paragraph.
blank_paragraph(s) ==
    IF Len(s.cur_notion_entry_blocks) > 0
        THEN [s EXCEPT !.notion_entries = append_entry(s),
                       !.cur_notion_entry_blocks = <<>>,
                       !.start_time_override = None,
                       !.cur_block_cluster = None]
        ELSE s

\* Mutant: a clock time that sets the override and leaves the cluster open.
date_paragraph_kept(s, block) ==
    [s EXCEPT !.start_time_override = day_start_ms + parse_date_block(block.text)]

\* split_page_blocks, loop body for a paragraph that parses as a clock time.
date_paragraph(s, block) ==
    [(IF Len(s.cur_notion_entry_blocks) > 0
          THEN [s EXCEPT !.notion_entries = append_entry(s),
                         !.cur_notion_entry_blocks = <<>>,
                         !.cur_block_cluster = None]
          ELSE s)
     EXCEPT !.start_time_override = day_start_ms + parse_date_block(block.text)]

\* Mutant: a flush on a change of cluster that leaves the override as it was.
content_block_unseeded(s, block) ==
    LET block_cluster == get_cluster_idx(block.type)
    IN  IF block_cluster = None THEN [s EXCEPT !.exc = ValueError]
        ELSE IF s.cur_block_cluster = None
            THEN [s EXCEPT !.cur_block_cluster = block_cluster,
                           !.cur_notion_entry_blocks = Append(@, block)]
        ELSE IF s.cur_block_cluster # block_cluster \/ ~clustering_allowed[block_cluster + 1]
            THEN [s EXCEPT !.notion_entries = append_entry(s),
                           !.cur_notion_entry_blocks = <<block>>,
                           !.cur_block_cluster = block_cluster]
        ELSE [s EXCEPT !.cur_notion_entry_blocks = Append(@, block)]

\* split_page_blocks, loop body for any other block.
content_block(s, block) ==
    LET block_cluster == get_cluster_idx(block.type)
    IN  IF block_cluster = None THEN [s EXCEPT !.exc = ValueError]
        ELSE IF s.cur_block_cluster = None
            THEN [s EXCEPT !.cur_block_cluster = block_cluster,
                           !.cur_notion_entry_blocks = Append(@, block)]
        ELSE IF s.cur_block_cluster # block_cluster \/ ~clustering_allowed[block_cluster + 1]
            THEN [s EXCEPT !.notion_entries = append_entry(s),
                           !.cur_notion_entry_blocks = <<block>>,
                           !.cur_block_cluster = block_cluster,
                           !.start_time_override =
                               create_notion_entry(s.cur_notion_entry_blocks,
                                                   Len(s.notion_entries),
                                                   s.start_time_override).start_time]
        ELSE [s EXCEPT !.cur_notion_entry_blocks = Append(@, block)]

\* for i, block in enumerate(page_blocks): the blocks from index i on.
RECURSIVE split_loop(_, _, _)
split_loop(s, blocks, i) ==
    IF i > Len(blocks) \/ Raised(s) THEN s
    ELSE split_loop(IF blocks[i].type = "paragraph" /\ blocks[i].text = ""
                        THEN blank_paragraph(s)
                    ELSE IF /\ blocks[i].type = "paragraph"
                            /\ parse_date_block(blocks[i].text) # None
                        THEN date_paragraph(s, blocks[i])
                    ELSE content_block(s, blocks[i]),
                    blocks, i + 1)

\* split_page_blocks(page_blocks, day_start_time_ms, day_end_time_ms, group_id).
split_page_blocks(blocks) ==
    LET s == split_loop(SplitLocals, blocks, 1)
    IN  IF Raised(s) THEN s
        ELSE IF Len(s.cur_notion_entry_blocks) > 0
            THEN [s EXCEPT !.notion_entries = append_entry(s)]
        ELSE s

\* notion_entry_to_entry(notion_entry, handler_id).  The text of a text entry
\* is the list of its pieces: separator, markdown prefix, block text.
notion_entry_to_entry(notion_entry, handler_id) ==
    LET first == notion_entry.notion_blocks[1]
        cluster_type == get_cluster_idx(first.type)
    IN  Entry(IF cluster_type = 0 THEN "text"
              ELSE IF cluster_type = 1 THEN "image_file"
              ELSE IF cluster_type = 2 THEN "video_file"
              ELSE IF cluster_type = 3 THEN "audio_file"
              ELSE "generic_file",
              IF cluster_type = 0
                  THEN [j \in 1..Len(notion_entry.notion_blocks) |->
                           <<IF j > 1 THEN "\n\n" ELSE "",
                             IF notion_entry.notion_blocks[j].type = "heading_1"
                                 THEN "# " ELSE "",
                             notion_entry.notion_blocks[j].text>>]
                  ELSE <<<<"file_name", first.id>>>>,
              notion_entry.start_time, handler_id, notion_entry.rep_uuid, NoOverride)

\* process_day_page: split_page_blocks on the blocks of the page.
Split ==
    /\ notion_pc.stage = "fetched"
    /\ LET s == split_page_blocks(page_blocks)
       IN  /\ notion_entries' = s.notion_entries
           /\ notion_pc' = [notion_pc EXCEPT
                  !.stage = IF Raised(s) THEN "raised" ELSE "split"]
    /\ UNCHANGED <<invocation, trigger_defaults, page_blocks, record, dumps>>
    /\ UNCHANGED tracking_vars
    /\ UNCHANGED storage_vars
    /\ UNCHANGED manager_vars

\* The handler converts every candidate; the records are dumped on insertion.
Convert ==
    /\ notion_pc.stage = "resolved"
    /\ dumps' = [j \in 1..Len(notion_entries) |->
                    Entry_model_dump(notion_entry_to_entry(notion_entries[j], "ih1"))]
    /\ notion_pc' = [notion_pc EXCEPT !.stage = "converted"]
    /\ UNCHANGED <<invocation, trigger_defaults, page_blocks, notion_entries, record>>
    /\ UNCHANGED tracking_vars
    /\ UNCHANGED storage_vars
    /\ UNCHANGED manager_vars

\* The pages: up to max_blocks blocks, each a blank paragraph, a text
\* paragraph, a clock time, a heading, an image without and a video with a
\* time in its file metadata, or a block of a type no cluster holds.  Block i
\* was created i seconds into the day.
BlockKinds ==
    {[type |-> "paragraph", text |-> "", file_time |-> None],
     [type |-> "paragraph", text |-> "a", file_time |-> None],
     [type |-> "paragraph", text |-> ClockText, file_time |-> None],
     [type |-> "heading_1", text |-> "a", file_time |-> None],
     [type |-> "image", text |-> "", file_time |-> None],
     [type |-> "video", text |-> "", file_time |-> day_start_ms + 7200000],
     [type |-> "divider", text |-> "", file_time |-> None]}
Pages(max_blocks) ==
    UNION {{[i \in 1..n |-> NotionBlock(i, ks[i].type, ks[i].text, day_start_ms + 1000 * i,
                                        ks[i].file_time)] :
              ks \in [1..n -> BlockKinds]} : n \in 0..max_blocks}

InitNotion ==
    /\ InitStorage
    /\ InitManager(NoIntervals)
    /\ invocation = NoInvocation
    /\ trigger_defaults = <<>>
    /\ page_blocks \in Pages(MaxBlocks)
    /\ notion_entries = <<>>
    /\ notion_pc = [NoPage EXCEPT !.stage = "fetched"]
    /\ record = NoRecord
    /\ dumps = <<>>
    /\ InitTracking

NextNotion ==
    \/ Split
    \/ ResolveCall
    \/ ResolveIteration
    \/ ResolveReturn
    \/ Convert

SpecNotion == InitNotion /\ [][NextNotion]_vars

\* The pages for the start times: a blank paragraph, a text paragraph, two
\* bare clock times, a paragraph that goes on after a clock time, a video
\* whose file metadata hold a time in the day and an audio file whose
\* metadata hold a time after the day.
TimedKinds ==
    {[type |-> "paragraph", text |-> "", file_time |-> None],
     [type |-> "paragraph", text |-> "a", file_time |-> None],
     [type |-> "paragraph", text |-> ClockText, file_time |-> None],
     [type |-> "paragraph", text |-> ClockTextPM, file_time |-> None],
     [type |-> "paragraph", text |-> ClockTextAndWords, file_time |-> None],
     [type |-> "video", text |-> "", file_time |-> day_start_ms + 7200000],
     [type |-> "audio", text |-> "", file_time |-> day_end_ms + 1]}
TimedPages(max_blocks) ==
    UNION {{[i \in 1..n |-> NotionBlock(i, ks[i].type, ks[i].text, day_start_ms + 1000 * i,
                                        ks[i].file_time)] :
              ks \in [1..n -> TimedKinds]} : n \in 0..max_blocks}

InitTimed ==
    /\ InitStorage
    /\ InitManager(NoIntervals)
    /\ invocation = NoInvocation
    /\ trigger_defaults = <<>>
    /\ page_blocks \in TimedPages(MaxBlocks)
    /\ notion_entries = <<>>
    /\ notion_pc = [NoPage EXCEPT !.stage = "fetched"]
    /\ record = NoRecord
    /\ dumps = <<>>
    /\ InitTracking

SpecTimed == InitTimed /\ [][NextNotion]_vars

\* ------------------------------------------- connectors: Notion tracking
\* for i, entry in enumerate(notion_entries): the iterations from index i on.
RECURSIVE resolve_loop(_, _, _)
resolve_loop(ne, i, cur_time) ==
    IF i >= Len(ne) THEN ne
    ELSE resolve_loop(resolve_iteration(ne, i, cur_time).notion_entries, i + 1,
                      resolve_iteration(ne, i, cur_time).cur_time)

\* resolve_monotonicity(notion_entries, day_start_ms, day_end_ms).
resolve_monotonicity(ne) == resolve_loop(ne, 0, -1)

\* last_updated_time of a NotionEntry, as create_notion_entry sets it.
last_updated_time(notion_entry) ==
    CHOOSE t \in {notion_entry.notion_blocks[j].last_edit_time_ms :
                    j \in 1..Len(notion_entry.notion_blocks)} :
        \A j \in 1..Len(notion_entry.notion_blocks) :
            notion_entry.notion_blocks[j].last_edit_time_ms <= t

\* NotionEntry.data_hash: the hashes of the texts of the blocks and the seq_id.
data_hash(notion_entry) ==
    hash_text(<<[j \in 1..Len(notion_entry.notion_blocks) |->
                    hash_text(<<notion_entry.notion_blocks[j].text>>)],
                notion_entry.seq_id>>)

\* The entry object notion_entry_to_entry returned as the Entry Manager reads
\* it: a TextEntry, whose entry_uuid is made of handler, start time and text.
text_entry(entry) ==
    [entry_type |-> entry.entry_type, data |-> entry.data,
     start_time |-> entry.start_time, input_handler_id |-> entry.input_handler_id,
     group_id |-> "notion_page", mutation_count |-> entry.mutation_count,
     file_id |-> NoFileId]

\* The string rep_uuid as an entry_uuid handed to the Entry Manager.
rep_uuid_as_entry_uuid(rep_uuid) ==
    [prefix |-> rep_uuid[1], handler |-> "", start_time |-> 0,
     hash |-> <<"id", <<rep_uuid[2]>>>>]

\* page_has_updated(page): the pair returned and the document it leaves.
page_has_updated(page_data, last_edit_time_ms, current_time_ms) ==
    IF ~page_data.found
        THEN [should_update |-> TRUE, is_recheck |-> FALSE, page_data |-> page_data]
    ELSE IF page_data.last_edited_time # last_edit_time_ms
        THEN [should_update |-> TRUE, is_recheck |-> FALSE, page_data |-> page_data]
    ELSE IF page_data.recheck_time # 0 /\ current_time_ms > page_data.recheck_time
        THEN [should_update |-> TRUE, is_recheck |-> TRUE,
              page_data |-> [page_data EXCEPT !.recheck_time = 0]]
    ELSE [should_update |-> FALSE, is_recheck |-> FALSE, page_data |-> page_data]

\* Mutant: every processed page is scheduled for a recheck.
set_page_processed_always_rechecks(last_edit_time_ms, current_time_ms, should_set_recheck) ==
    [found |-> TRUE, last_edited_time |-> last_edit_time_ms,
     recheck_time |-> current_time_ms + recheck_interval * 1000]

\* set_page_processed(page, should_set_recheck): the document it stores.
set_page_processed(last_edit_time_ms, current_time_ms, should_set_recheck) ==
    [found |-> TRUE, last_edited_time |-> last_edit_time_ms,
     recheck_time |-> IF should_set_recheck
                          THEN current_time_ms + recheck_interval * 1000 ELSE 0]

\* entry_has_updated(entry).
entry_has_updated(collection, notion_entry) ==
    IF ~\E block_data \in collection : block_data.id = notion_entry.rep_uuid THEN TRUE
    ELSE \E block_data \in collection :
           /\ block_data.id = notion_entry.rep_uuid
           /\ IF data_hash(notion_entry) # block_data.data_hash THEN TRUE
              ELSE block_data.last_edited_time # last_updated_time(notion_entry)

\* set_entry_processed(entry, page): replace_one with upsert.  History, in
\* stored_as: the entry_uuid of the record the candidate was converted to.
set_entry_processed(collection, notion_entry, stored_as) ==
    {block_data \in collection : block_data.id # notion_entry.rep_uuid}
        \cup {[id |-> notion_entry.rep_uuid,
               last_edited_time |-> last_updated_time(notion_entry),
               data_hash |-> data_hash(notion_entry), stored_as |-> stored_as]}

\* remove_entry(rep_uuid).
remove_entry(collection, rep_uuid) ==
    {block_data \in collection : block_data.id # rep_uuid}

\* get_stored_page_blocks(page).
get_stored_page_blocks(collection) == {block_data.id : block_data \in collection}

\* A minute passes.
NotionClock ==
    /\ notion_site.now < NotionHorizon
    /\ notion_site' = [notion_site EXCEPT !.now = @ + Minute]
    /\ UNCHANGED <<invocation, trigger_defaults, page_blocks, notion_entries, notion_pc,
                   record, dumps, pages_collection, entries_collection, notion_trigger>>
    /\ UNCHANGED storage_vars
    /\ UNCHANGED manager_vars

\* The user writes paragraph id of the page: another text in the paragraph,
\* or the paragraph, created id seconds into the day, put at the end of the
\* page.
WriteParagraph(id, text) ==
    /\ \A j \in 1..Len(page_blocks) : page_blocks[j].id = id => page_blocks[j].text # text
    /\ page_blocks' =
           IF \E j \in 1..Len(page_blocks) : page_blocks[j].id = id
               THEN [j \in 1..Len(page_blocks) |->
                        IF page_blocks[j].id = id
                            THEN [page_blocks[j] EXCEPT !.text = text,
                                      !.last_edit_time_ms = notion_site.now]
                            ELSE page_blocks[j]]
               ELSE Append(page_blocks,
                           NotionBlock(id, "paragraph", text, day_start_ms + 1000 * id,
                                       None))
    /\ notion_site.edits < MaxEdits
    /\ notion_site' = [notion_site EXCEPT !.last_edit_time_ms = notion_site.now,
                                          !.edits = @ + 1]
    /\ UNCHANGED <<invocation, trigger_defaults, notion_entries, notion_pc, record, dumps,
                   pages_collection, entries_collection, notion_trigger>>
    /\ UNCHANGED storage_vars
    /\ UNCHANGED manager_vars

\* The user deletes paragraph id from the page.
DeleteParagraph(id) ==
    /\ \E j \in 1..Len(page_blocks) : page_blocks[j].id = id
    /\ page_blocks' = SelectSeq(page_blocks, LAMBDA block : block.id # id)
    /\ notion_site.edits < MaxEdits
    /\ notion_site' = [notion_site EXCEPT !.last_edit_time_ms = notion_site.now,
                                          !.edits = @ + 1]
    /\ UNCHANGED <<invocation, trigger_defaults, notion_entries, notion_pc, record, dumps,
                   pages_collection, entries_collection, notion_trigger>>
    /\ UNCHANGED storage_vars
    /\ UNCHANGED manager_vars

\* trigger is called: get_pages, then page_has_updated on the day page.  A
\* page that has not been updated is left alone and trigger returns.
NotionCheck ==
    /\ notion_trigger.pc = "idle"
    /\ \E c \in {page_has_updated(pages_collection, notion_site.last_edit_time_ms,
                                  notion_site.now)} :
           /\ c.should_update => notion_trigger.run < MaxRuns
           /\ pages_collection' = c.page_data
           /\ notion_trigger' =
                  [NotionIdle EXCEPT
                      !.pc = IF c.should_update THEN "updated" ELSE "idle",
                      !.last_edit_time_ms = notion_site.last_edit_time_ms,
                      !.is_recheck = c.is_recheck,
                      !.outcome = IF c.should_update THEN "none" ELSE "not_updated",
                      !.rechecks = notion_trigger.rechecks + IF c.is_recheck THEN 1 ELSE 0,
                      !.run = notion_trigger.run + IF c.should_update THEN 1 ELSE 0]
    /\ UNCHANGED <<invocation, trigger_defaults, page_blocks, notion_entries, notion_pc,
                   record, dumps, notion_site, entries_collection>>
    /\ UNCHANGED storage_vars
    /\ UNCHANGED manager_vars

\* process_day_page(subpage, day_start_ms, day_end_ms): the blocks the page
\* has now, split and resolved, and the stored ids no candidate has.
NotionProcessDayPage ==
    /\ notion_trigger.pc = "updated"
    /\ \E s \in {split_page_blocks(page_blocks)} :
           IF Raised(s)
               THEN /\ notion_trigger' = [notion_trigger EXCEPT !.pc = "idle",
                                                                !.outcome = "raised"]
                    /\ UNCHANGED notion_entries
               ELSE \E resolved_blocks \in {resolve_monotonicity(s.notion_entries)} :
                      /\ notion_entries' = resolved_blocks
                      /\ notion_trigger' =
                             [notion_trigger EXCEPT
                                 !.pc = IF Len(resolved_blocks) = 0
                                            THEN "removing" ELSE "inserting",
                                 !.previous_block_ids =
                                     get_stored_page_blocks(entries_collection),
                                 !.removed_block_rep_ids =
                                     get_stored_page_blocks(entries_collection)
                                         \ {resolved_blocks[j].rep_uuid :
                                              j \in 1..Len(resolved_blocks)},
                                 !.removed =
                                     {block_data \in entries_collection :
                                        \A j \in 1..Len(resolved_blocks) :
                                            resolved_blocks[j].rep_uuid # block_data.id}]
    /\ UNCHANGED <<invocation, trigger_defaults, page_blocks, notion_pc, record, dumps,
                   notion_site, pages_collection, entries_collection>>
    /\ UNCHANGED storage_vars
    /\ UNCHANGED manager_vars

\* The position of the trigger after the iteration for candidate i.
next_candidate(t, log) ==
    [t EXCEPT !.i = @ + 1, !.entry_insertion_log = log,
              !.pc = IF t.i + 1 = Len(notion_entries) THEN "removing" ELSE @]

\* for notion_entry in new_notion_entries: one iteration.  A candidate that
\* has updated is converted, inserted with the helper and set processed.
NotionCandidate(fault) ==
    /\ notion_trigger.pc = "inserting"
    /\ IF entry_has_updated(entries_collection, notion_entries[notion_trigger.i + 1])
           THEN \E e \in {text_entry(notion_entry_to_entry(
                              notion_entries[notion_trigger.i + 1], "ih1"))} :
                \E h \in {InputHandler_insert_entry(notion_trigger.entry_insertion_log,
                                                    CallState(e, fault), TRUE)} :
                  /\ Finish(h.r, "insert", e, entry_uuid(e), e.group_id, TRUE, FALSE)
                  /\ entries_collection' =
                         set_entry_processed(entries_collection,
                                             notion_entries[notion_trigger.i + 1],
                                             entry_uuid(e))
                  /\ notion_trigger' = next_candidate(notion_trigger,
                                                      h.entry_insertion_log)
           ELSE /\ fault = 0
                /\ notion_trigger' = next_candidate(notion_trigger,
                                                    notion_trigger.entry_insertion_log)
                /\ UNCHANGED entries_collection
                /\ UNCHANGED storage_vars
    /\ UNCHANGED <<invocation, trigger_defaults, page_blocks, notion_entries, notion_pc,
                   record, dumps, notion_site, pages_collection>>
    /\ UNCHANGED manager_vars

\* for rep_uuid in removed_block_rep_ids: one iteration.  EntryNotFoundException
\* is caught; any other exception of the Entry Manager leaves trigger.
NotionRemove(rep_uuid, fault) ==
    /\ notion_trigger.pc = "removing"
    /\ rep_uuid \in notion_trigger.removed_block_rep_ids
    /\ \E r \in {EntryManager_delete_entry(CallState(NoEntry, fault),
                                           rep_uuid_as_entry_uuid(rep_uuid))} :
           /\ Finish(r, "delete", NoEntry, rep_uuid_as_entry_uuid(rep_uuid),
                     StoredDoc(db, rep_uuid_as_entry_uuid(rep_uuid)).group_id, FALSE, FALSE)
           /\ IF r.exc \in {NoExc, NotFound}
                  THEN /\ entries_collection' = remove_entry(entries_collection, rep_uuid)
                       /\ notion_trigger' =
                              [notion_trigger EXCEPT !.removed_block_rep_ids = @ \ {rep_uuid}]
                  ELSE /\ notion_trigger' = [notion_trigger EXCEPT !.pc = "idle",
                                                                   !.outcome = "raised"]
                       /\ UNCHANGED entries_collection
    /\ UNCHANGED <<invocation, trigger_defaults, page_blocks, notion_entries, notion_pc,
                   record, dumps, notion_site, pages_collection>>
    /\ UNCHANGED manager_vars

\* set_page_processed(subpage, should_set_recheck=not is_recheck), after
\* which trigger returns.
NotionPageProcessed ==
    /\ notion_trigger.pc = "removing"
    /\ notion_trigger.removed_block_rep_ids = {}
    /\ pages_collection' = set_page_processed(notion_trigger.last_edit_time_ms,
                                              notion_site.now, ~notion_trigger.is_recheck)
    /\ notion_trigger' = [notion_trigger EXCEPT
           !.pc = "idle", !.outcome = "processed",
           !.rechecks = IF notion_trigger.is_recheck THEN @ ELSE 0]
    /\ UNCHANGED <<invocation, trigger_defaults, page_blocks, notion_entries, notion_pc,
                   record, dumps, notion_site, entries_collection>>
    /\ UNCHANGED storage_vars
    /\ UNCHANGED manager_vars

\* The day page is written and its paragraphs deleted while the connector is
\* triggered again and again, on a storage that may fail at the first call of
\* an operation.
ParagraphIds == 1..MaxParagraphs
ParagraphTexts == {"a", "b"}

NextTracking ==
    \/ NotionClock
    \/ \E id \in ParagraphIds, text \in ParagraphTexts : WriteParagraph(id, text)
    \/ \E id \in ParagraphIds : DeleteParagraph(id)
    \/ NotionCheck
    \/ NotionProcessDayPage
    \/ \E f \in FirstCall : NotionCandidate(f)
    \/ \E id \in ParagraphIds, f \in FirstCall : NotionRemove(<<"paragraph", id>>, f)
    \/ NotionPageProcessed

SpecTracking == Init /\ [][NextTracking]_vars

\* ------------------------------------------------------------------ claims
Lookup(d, uuid) == EntryManager_get_entry_if_exists(CallStateOf(d, {}, 0, NoEntry, 0), uuid)
Copies(d, uuid) == Cardinality({i \in 1..Len(d) : d[i].entry_uuid = uuid})
Members(d, g) == SelectSeq(d, LAMBDA x : x.group_id = g)

\* C1: an insert with mutate = false on a working storage writes the record and
\* returns False (created, not mutated) when the identity is absent, and raises
\* EntryAlreadyExistsException leaving both stores as they were when it is present.
C1_InsertWithoutMutate ==
    [][(last'.op = "insert" /\ ~last'.mutate /\ ~last'.faulted) =>
          IF Stored(db, last'.uuid)
              THEN /\ last'.exc = AlreadyExists
                   /\ db' = db
                   /\ files' = files
              ELSE /\ last'.exc = NoExc
                   /\ last'.ret = FALSE
                   /\ db' = Append(db, model_dump(last'.entry))]_vars

C1_SecondInsertRejected ==
    /\ last.op = "insert"
    /\ ~last.mutate
    /\ last.existed
    /\ last.exc = AlreadyExists
    /\ Stored(db, last.uuid)

\* C2: an insert with mutate = true on a stored identity, on a working storage,
\* returns True and leaves exactly one record of that identity: the incoming
\* entry with mutation_count = the previously stored mutation_count + 1,
\* whatever mutation_count the incoming object carried.
C2_MutateIncrementsStoredCount ==
    [][(last'.op = "insert" /\ last'.mutate /\ Stored(db, last'.uuid) /\ ~last'.faulted) =>
          /\ last'.exc = NoExc
          /\ last'.ret = TRUE
          /\ Copies(db', last'.uuid) = 1
          /\ Len(db') = Len(db)
          /\ StoredDoc(db', last'.uuid) =
                [model_dump(last'.entry) EXCEPT
                    !.mutation_count = StoredDoc(db, last'.uuid).mutation_count + 1]]_vars

C2_MutatedWithForeignCount ==
    /\ last.op = "insert"
    /\ last.mutate /\ last.existed /\ last.ret /\ last.exc = NoExc
    /\ last.entry.mutation_count = 1
    /\ StoredDoc(db, last.uuid).mutation_count = 1

\* C3: step by step, the mutation_count of a stored record counts the overwrites
\* since its creation: a record that appears is stored with 0, a record that is
\* replaced has the previous count + 1, any other record keeps its count.
C3_CountIsOverwritesSinceCreation ==
    [][\A u \in UUIDs : Stored(db', u) =>
          IF ~Stored(db, u)
              THEN StoredDoc(db', u).mutation_count = 0
              ELSE IF StoredDoc(db', u) # StoredDoc(db, u)
                       THEN StoredDoc(db', u).mutation_count =
                                StoredDoc(db, u).mutation_count + 1
                       ELSE TRUE]_vars

\* C4: the collection never holds two documents with the same entry_uuid.
C4_OneRecordPerUuid ==
    \A i, j \in 1..Len(db) : db[i].entry_uuid = db[j].entry_uuid => i = j

C4_WriteOnStoredUuidRejected ==
    /\ last.op = "put"
    /\ last.existed
    /\ last.exc = AlreadyExists
    /\ Copies(db, last.uuid) = 1

\* C5: insert_file_entry on a stored identity with delete_old_file = true whose
\* old payload is in the store: when the call raises, the old payload is still
\* there; when the old payload is gone, the new payload is in the store and the
\* stored record references it.
C5_OldPayloadDeletedLast ==
    [][(/\ last'.op = "insert_file" /\ last'.delete_old_file
        /\ Stored(db, last'.uuid)
        /\ StoredDoc(db, last'.uuid).file_id \in files) =>
          LET old == StoredDoc(db, last'.uuid).file_id IN
          /\ last'.exc # NoExc => old \in files'
          /\ old \notin files' =>
                /\ next_file_id' = next_file_id + 1
                /\ next_file_id' \in files'
                /\ Stored(db', last'.uuid)
                /\ StoredDoc(db', last'.uuid).file_id = next_file_id']_vars

C5_PayloadSwapped ==
    /\ last.op = "insert_file"
    /\ last.delete_old_file /\ last.existed /\ last.exc = NoExc /\ last.ret
    /\ StoredDoc(db, last.uuid).file_id = next_file_id
    /\ next_file_id \in files
    /\ (next_file_id - 1) \notin files

\* C6: an insert with mutate = true on a stored identity that raises leaves the
\* identity stored.
C6_FailedOverwriteKeepsRecord ==
    [][(/\ last'.op = "insert" /\ last'.mutate
        /\ Stored(db, last'.uuid)
        /\ last'.exc # NoExc) => Stored(db', last'.uuid)]_vars

\* C7: delete_entry of an identity that is not stored, on a working storage,
\* raises EntryNotFoundException and changes neither store; after a delete_entry
\* that returned, a lookup of the identity finds nothing.
C7_DeleteAbsentAndPresent ==
    [][last'.op = "delete" =>
          /\ (~Stored(db, last'.uuid) /\ ~last'.faulted) =>
                /\ last'.exc = NotFound
                /\ db' = db
                /\ files' = files
          /\ last'.exc = NoExc =>
                /\ Stored(db, last'.uuid)
                /\ ~Lookup(db', last'.uuid).found]_vars

C7_Deleted ==
    /\ last.op = "delete"
    /\ last.existed
    /\ last.exc = NoExc
    /\ ~Lookup(db, last.uuid).found

\* C8 as claimed: no stored file record references a payload that was deleted.
Deleted(file_id) == file_id \in 1..next_file_id /\ file_id \notin files

C8_NoRecordOfDeletedPayload ==
    \A i \in 1..Len(db) : db[i].entry_type \in FileTypes => ~Deleted(db[i].file_id)

\* C8 amended: delete_entry of a file record deletes the payload first and the
\* metadata row after it: whenever the row is gone the payload is gone, and a
\* delete that returned removed both.
C8_PayloadDeletedBeforeRow ==
    [][(/\ last'.op = "delete"
        /\ Stored(db, last'.uuid)
        /\ StoredDoc(db, last'.uuid).entry_type \in FileTypes) =>
          LET payload == StoredDoc(db, last'.uuid).file_id IN
          /\ ~Stored(db', last'.uuid) => payload \notin files'
          /\ last'.exc = NoExc => (~Stored(db', last'.uuid) /\ payload \notin files')]_vars

C8_PayloadGoneRowLeft ==
    /\ last.op = "delete"
    /\ last.existed /\ last.faulted
    /\ Stored(db, last.uuid)
    /\ StoredDoc(db, last.uuid).entry_type \in FileTypes
    /\ Deleted(StoredDoc(db, last.uuid).file_id)

\* C9: a delete_group that returned removed exactly the records of the group,
\* in place, and exactly the payloads of the group's file records.
C9_DeleteGroupFrame ==
    [][(last'.op = "delete_group" /\ last'.exc = NoExc) =>
          /\ db' = SelectSeq(db, LAMBDA x : x.group_id # last'.group)
          /\ files' = files \ {db[i].file_id : i \in {j \in 1..Len(db) :
                                    /\ db[j].group_id = last'.group
                                    /\ db[j].entry_type \in FileTypes}}]_vars

C9_GroupDeletedOthersKept ==
    /\ last.op = "delete_group"
    /\ last.existed /\ last.exc = NoExc
    /\ \E i \in 1..Len(db) : db[i].group_id = NoGroup
    /\ \E i \in 1..Len(db) : db[i].group_id \in Groups
    /\ files = {}
    /\ next_file_id > 0

\* C10 as claimed: when the deletion of one member fails, every other member
\* of the group is still deleted.
C10_OtherMembersStillDeleted ==
    [][(last'.op = "delete_group" /\ last'.exc # NoExc /\ last'.calls > 1) =>
          Len(Members(db', last'.group)) <= 1]_vars

\* C10 amended: when the deletion of one member fails, delete_group raises and
\* stops: the members before the failing one (in search order) are gone and are
\* not restored, the failing member and all members after it are still stored,
\* and no other record changed.
RECURSIVE DropMembers(_, _, _)
DropMembers(d, g, k) ==
    IF k = 0 \/ d = <<>> THEN d
    ELSE IF Head(d).group_id = g THEN DropMembers(Tail(d), g, k - 1)
    ELSE <<Head(d)>> \o DropMembers(Tail(d), g, k)

C10_StopsAtFailingMember ==
    [][(last'.op = "delete_group" /\ last'.exc # NoExc /\ last'.calls > 1) =>
          \E k \in 0..(Len(Members(db, last'.group)) - 1) :
              db' = DropMembers(db, last'.group, k)]_vars

C10_StoppedInTheMiddle ==
    /\ last.op = "delete_group"
    /\ last.exc # NoExc
    /\ last.calls >= 5
    /\ Len(Members(db, last.group)) >= 2

\* C11: the check-then-write of insert_entry is not interleaved with another
\* writer of the same connector: whatever the order in which overlapping
\* triggers of one connector overwrite a stored identity, no update is lost:
\* exactly one record of the identity remains and its mutation_count is the
\* number of overwrites the triggers have reported for it (two overlapping
\* triggers raise it by exactly 2).
Mutations(u) == Cardinality({i \in 1..Len(logs) : logs[i].entry_uuid = u /\ logs[i].mutated})

C11_NoLostUpdate ==
    /\ \A i \in 1..Len(logs) : logs[i].success
    /\ \A u \in UUIDs : Stored(db, u) =>
          /\ Copies(db, u) = 1
          /\ StoredDoc(db, u).mutation_count = Mutations(u)

C11_TwoTriggersOverwrote ==
    /\ done.kind = "interval" /\ done.handler = "h1"
    /\ tasks["h1"] = 0
    /\ last.op = "insert" /\ last.existed /\ last.ret
    /\ Mutations(last.uuid) = 2
    /\ StoredDoc(db, last.uuid).mutation_count = 2

\* An iteration of the watch loop is the step that reads the clock.
\* Elapsed(h, t): connector h has a check interval and more than that interval
\* lies between its latest interval dispatch and the clock reading t.
Elapsed(h, t) == check_intervals[h] # None /\ t - last_updated[h] > check_intervals[h] * 1000
Dispatched(h) == tasks'[h] = tasks[h] + 1 /\ last_updated'[h] = now'
NotDispatched(h) == tasks'[h] = tasks[h] /\ last_updated'[h] = last_updated[h]

C13_HandlerExceptionRecordedOnce ==
    [][/\ done'.outcome = "raised" =>
             trigger_errors' = [trigger_errors EXCEPT
                                   ![done'.handler] = Append(@, <<now, HandlerError>>)]
       /\ done'.outcome # "raised" => trigger_errors' = trigger_errors
       /\ done'.kind # "none" =>
             /\ escaped' = {}
             /\ watch_task' = watch_task
             /\ stop_event' = stop_event
             /\ tasks'[done'.handler] <= tasks[done'.handler]
       /\ done'.kind = "request" =>
             requests'[done'.handler] = IF done'.outcome = "raised" THEN "None" ELSE "log"
      ]_vars

C13_RaisedAgainNextToOtherLog ==
    /\ done.kind = "new_file" /\ done.outcome = "raised"
    /\ Len(trigger_errors["h2"]) = 2
    /\ Len(trigger_errors["h1"]) = 1
    /\ requests["h1"] = "None"
    /\ watch_task = "sleeping"

\* C14: a connector whose trigger handler raises every time does not prevent
\* the scheduled triggers of the others: at every tick at which a connector
\* has errors on its log, every other connector whose interval has elapsed is
\* dispatched, and the failures do not end the watch loop.
C14_FailingConnectorDoesNotBlockOthers ==
    [][/\ now' # now =>
             \A g \in Handlers : trigger_errors[g] # <<>> =>
                 \A h \in Handlers \ {g} : Elapsed(h, now') => Dispatched(h)
       /\ (~stop_event') => watch_task' # "done"
      ]_vars

C14_OtherDispatchedAfterFailures ==
    \E g \in Handlers, h \in Handlers :
        /\ g # h
        /\ Len(trigger_errors[g]) = MaxErrors
        /\ tasks[g] = 0
        /\ last_updated[h] > trigger_errors[g][1][1]
        /\ tasks[h] > 0

\* C15: a connector whose trigger failed is not disabled: at every tick (the
\* scheduler is not stopped) at which its check interval has elapsed it is
\* dispatched again, whatever the number of errors on its log.
C15_FailedConnectorDispatchedAgain ==
    [][now' # now =>
          \A h \in Handlers :
              (trigger_errors[h] # <<>> /\ Elapsed(h, now')) => Dispatched(h)]_vars

C15_DispatchedAfterOwnFailure ==
    \E h \in Handlers :
        /\ trigger_errors[h] # <<>>
        /\ last_updated[h] > trigger_errors[h][1][1]
        /\ tasks[h] = 1

\* C16: one slow connector cannot delay the others: at every tick, while an
\* interval trigger, a request or a file watch of a connector has not finished,
\* every other connector whose interval has elapsed is dispatched and the scan
\* of the input directory is started; and the tick itself needs nothing but the
\* end of the loop's sleep, whatever is still in flight.
Busy(g) ==
    \/ tasks[g] > 0
    \/ requests[g] = "running"
    \/ \E p \in Paths : p.parent = g /\ watchers[p].pc \in {"sleeping", "handling"}

C17_HandlerOnlyAfterStablePoll ==
    \A p \in Paths :
        watchers[p].pc = "handling" =>
            /\ watchers[p].polls >= 2
            /\ watchers[p].size_stable
            /\ watchers[p].can_open

\* C18: a file in the input directory of a connector, once it is openable and
\* its size has stopped changing, eventually gets the new-file handler of that
\* connector invoked with it, when the watch loop has a tick to come and is
\* not stopped.
Settled(p, size) ==
    input_folder[p].exists /\ input_folder[p].openable /\ input_folder[p].size = size
TickToCome ==
    watch_task \in {"created", "sleeping"} /\ ~stop_event /\ now + sleep_interval <= Horizon

C18_SettledFileIsTriggered ==
    \A p \in Inbox : \A size \in 0..MaxSize :
        (Settled(p, size) /\ TickToCome) ~>
            (watchers[p].pc = "handling" \/ ~Settled(p, size) \/ stop_event)

\* C19: once the new-file handler has been invoked for a file, the step in
\* which the handler ends, by returning or by raising, leaves no file at that
\* path of the input directory.
C19_FileDeletedAfterHandler ==
    [][\A p \in Paths :
          (watchers[p].pc = "handling" /\ watchers'[p].pc # "handling") =>
              /\ done'.kind = "new_file"
              /\ done'.handler = p.parent
              /\ done'.outcome \in Outcomes
              /\ ~input_folder'[p].exists]_vars

C19_DeletedAfterHandlerRaised ==
    \E p \in Paths :
        /\ done = [kind |-> "new_file", handler |-> p.parent, name |-> p.name,
                   outcome |-> "raised"]
        /\ trigger_errors[p.parent] # <<>>
        /\ ~input_folder[p].exists
        /\ p \notin currently_processing_files
        /\ escaped = {}

\* C20: stop_watching sets the stop event and returns when the watch loop has
\* ended.  From the moment the event is set no interval trigger and no scan of
\* the input directory is dispatched; setting the event and the end of the loop
\* cancel no interval trigger in flight, which can still return or raise after
\* stop_watching has returned.
C20_StopEndsDispatchOnly ==
    /\ [](watch_task = "done" => stop_event)
    /\ [](\A h \in Handlers :
             (watch_task = "done" /\ tasks[h] > 0) => ENABLED TriggerDone(h, "returned"))
    /\ [][/\ stop_event =>
                /\ now' = now
                /\ last_updated' = last_updated
                /\ \A h \in Handlers : tasks'[h] <= tasks[h]
                /\ scan_tasks' => scan_tasks
          /\ ((stop_event' /\ ~stop_event) \/ (watch_task' = "done" /\ watch_task # "done")) =>
                tasks' = tasks /\ trigger_errors' = trigger_errors
         ]_vars

C20_TriggerEndedAfterStopReturned ==
    /\ watch_task = "done"
    /\ stop_event
    /\ done.kind = "interval"
    /\ done.outcome = "raised"
    /\ \E h \in Handlers : tasks[h] > 0

\* ------------------------------------------------------------------ C21
\* C21: every call of a connector helper (insert_entry, insert_file_entry)
\* appends exactly one item to the insertion log the handler handed to it: a
\* success with the mutated flag the Entry Manager returned, or a failure with
\* the error; no exception leaves the helper, so the handler is still running
\* after a failed insert and nothing reaches the scheduler.
C21_HelperLogsOnceAndNeverRaises ==
    [][Len(invocation'.attempted) = Len(invocation.attempted) + 1 =>
        LET before == IF invocation.connector = "sensor_info"
                          THEN trigger_defaults ELSE invocation.entry_insertion_log
            after == IF invocation.connector = "sensor_info"
                         THEN trigger_defaults' ELSE invocation'.entry_insertion_log
        IN  /\ Len(after) = Len(before) + 1
            /\ SubSeq(after, 1, Len(before)) = before
            /\ after[Len(after)].entry_uuid = last'.uuid
            /\ after[Len(after)].success = (last'.exc = NoExc)
            /\ after[Len(after)].mutated = ((last'.exc = NoExc) /\ last'.ret)
            /\ after[Len(after)].error = last'.exc
            /\ invocation'.pc = "running"
            /\ escaped' = escaped
            /\ trigger_errors' = trigger_errors]_vars

\* Witness: a batch whose first insert failed and whose second succeeded.
C21_BatchWentOnAfterFailure ==
    /\ invocation.pc = "running"
    /\ Len(invocation.entry_insertion_log) = 2
    /\ ~invocation.entry_insertion_log[1].success
    /\ invocation.entry_insertion_log[1].error = StorageError
    /\ invocation.entry_insertion_log[2].success

\* ------------------------------------------------------------------ C22
\* C22: a trigger invocation that completed, of any connector and any trigger
\* kind, has called on_entries_inserted exactly once, with a log that holds
\* one item for each record the handler attempted to persist during the
\* invocation, in the order of the attempts, and nothing else.
C22_ReportedLogHoldsEveryAttempt ==
    invocation.pc = "returned" =>
        /\ invocation.calls = 1
        /\ Len(invocation.reported) = Len(invocation.attempted)
        /\ \A i \in 1..Len(invocation.reported) :
               invocation.reported[i].entry_uuid = invocation.attempted[i]

\* ------------------------------------------------------------------ C23
\* C23: the list resolve_monotonicity returns has start times that are
\* non-decreasing from the first candidate to the last.
C23_ResolvedTimesNonDecreasing ==
    notion_pc.stage = "resolved" =>
        \A a \in 1..Len(notion_entries), b \in 1..Len(notion_entries) :
            a < b => notion_entries[a].start_time <= notion_entries[b].start_time

\* ------------------------------------------------------------------ C24
\* C24: a candidate whose time is before day_start or after day_end gets the
\* last accepted in-bounds time, or -1 when none was accepted yet, and after
\* resolve_monotonicity every candidate has a time within the day bounds or
\* the sentinel -1.
C24_OutOfBoundsTimesReplaced ==
    [][/\ (/\ notion_pc.stage = "resolving"
           /\ notion_pc'.i = notion_pc.i + 1
           /\ (notion_entries[notion_pc.i + 1].start_time < day_start_ms
               \/ notion_entries[notion_pc.i + 1].start_time > day_end_ms))
          => notion_entries'[notion_pc.i + 1].start_time = notion_pc.accepted
       /\ notion_pc'.stage = "resolved" =>
            \A a \in 1..Len(notion_entries') :
                \/ notion_entries'[a].start_time = -1
                \/ /\ notion_entries'[a].start_time >= day_start_ms
                   /\ notion_entries'[a].start_time <= day_end_ms]_vars

\* ------------------------------------------------------------------ C29
\* C29: in the iteration of resolve_monotonicity for an in-bounds candidate i
\* whose time is lower than cur_time: when k is the nearest earlier candidate
\* with a time <= time(i), every candidate strictly between k and i gets
\* time(k) while i and the candidates up to k keep their times; when there is
\* no such k, no candidate gets a time that is not the time of a candidate at
\* or before i.
C29_BackfillFromNearestEarlier ==
    [][(/\ notion_pc.stage = "resolving"
        /\ notion_pc'.i = notion_pc.i + 1
        /\ notion_entries[notion_pc.i + 1].start_time >= day_start_ms
        /\ notion_entries[notion_pc.i + 1].start_time <= day_end_ms
        /\ notion_entries[notion_pc.i + 1].start_time < notion_pc.cur_time)
       => LET i == notion_pc.i + 1
              earlier == {k \in 1..(i - 1) :
                             notion_entries[k].start_time <= notion_entries[i].start_time}
          IN  IF earlier # {}
                  THEN LET k == CHOOSE m \in earlier : \A n \in earlier : n <= m
                       IN  /\ \A j \in (k + 1)..(i - 1) :
                                  notion_entries'[j].start_time = notion_entries[k].start_time
                           /\ \A j \in (1..k) \cup {i} :
                                  notion_entries'[j].start_time = notion_entries[j].start_time
                  ELSE \A j \in 1..Len(notion_entries) :
                          \/ notion_entries'[j].start_time = notion_entries[j].start_time
                          \/ \E m \in 1..i :
                                 notion_entries'[j].start_time = notion_entries[m].start_time]_vars

\* ------------------------------------------------------------------ C27
\* C27: the entry_uuid of a record is a function of its type, identifying
\* fields and content: two dumps of records that agree on entry_type, data,
\* start_time, input_handler_id and the overrides have the same entry_uuid,
\* whatever their tags, mutation_count and privacy are.
C27_UuidIgnoresMutableFields ==
    \A a \in 1..Len(dumps), b \in 1..Len(dumps) :
        (/\ dumps[a].entry_type = dumps[b].entry_type
         /\ dumps[a].data = dumps[b].data
         /\ dumps[a].start_time = dumps[b].start_time
         /\ dumps[a].input_handler_id = dumps[b].input_handler_id
         /\ dumps[a].entry_uuid_override = dumps[b].entry_uuid_override
         /\ dumps[a].entry_hash_override = dumps[b].entry_hash_override)
        => dumps[a].entry_uuid = dumps[b].entry_uuid

\* Witness: two dumps of a text record that differ in tags, mutation_count and
\* privacy.
C27_DumpedBeforeAndAfterMutation ==
    /\ Len(dumps) = 2
    /\ dumps[1].entry_type = "text"
    /\ dumps[1].tags # dumps[2].tags
    /\ dumps[1].mutation_count # dumps[2].mutation_count
    /\ dumps[1].privacy # dumps[2].privacy
    /\ dumps[1].entry_uuid = dumps[2].entry_uuid

\* ------------------------------------------------------------------ C28
\* C28: for every entry type, a record with entry_uuid_override set has that
\* override as entry_uuid, and a record with entry_hash_override set has that
\* override as entry_hash; in particular a record built from a Notion
\* candidate has the candidate's rep_uuid as entry_uuid.
C28_OverridesAreUsed ==
    \A a \in 1..Len(dumps) :
        /\ dumps[a].entry_uuid_override # <<"None">>
               => dumps[a].entry_uuid = dumps[a].entry_uuid_override
        /\ dumps[a].entry_hash_override # <<"None">>
               => dumps[a].entry_hash = dumps[a].entry_hash_override

\* ------------------------------------------------------------------ C25
Blank(i) == page_blocks[i].type = "paragraph" /\ page_blocks[i].text = ""
\* The first blocks of the maximal runs of non-blank blocks of the page.
RunStarts == {i \in 1..Len(page_blocks) : ~Blank(i) /\ (i = 1 \/ Blank(i - 1))}
\* The page holds text-like blocks only and no clock time.
TextPage ==
    \A i \in 1..Len(page_blocks) :
        /\ page_blocks[i].type \in {"paragraph", "heading_1", "heading_2", "heading_3",
                                    "bulleted_list_item", "numbered_list_item", "quote",
                                    "code", "equation"}
        /\ page_blocks[i].text # "0:01"

\* C25 as stated: split_page_blocks produces exactly one candidate per maximal
\* run of non-blank blocks, and no candidate is empty.
C25_OneCandidatePerRun ==
    notion_pc.stage = "split" =>
        /\ Len(notion_entries) = Cardinality(RunStarts)
        /\ \A c \in 1..Len(notion_entries) : Len(notion_entries[c].notion_blocks) > 0

\* C25 amended: on any page no candidate is empty; on a page of text-like
\* blocks without clock times there is exactly one candidate per maximal run
\* of non-blank blocks, and it holds the blocks of that run in order.
C25_OneCandidatePerTextRun ==
    notion_pc.stage = "split" =>
        /\ \A c \in 1..Len(notion_entries) : Len(notion_entries[c].notion_blocks) > 0
        /\ TextPage =>
            /\ Len(notion_entries) = Cardinality(RunStarts)
            /\ \A c \in 1..Len(notion_entries) :
                LET bs == notion_entries[c].notion_blocks
                IN  /\ bs[1].id \in RunStarts
                    /\ \A j \in 1..Len(bs) :
                           /\ bs[j] = page_blocks[bs[1].id + j - 1]
                           /\ ~Blank(bs[j].id)
                    /\ \/ bs[Len(bs)].id = Len(page_blocks)
                       \/ Blank(bs[Len(bs)].id + 1)

\* Witness: the page [text, blank, text] split into two candidates of one
\* text block each.
C25_TwoParagraphsTwoCandidates ==
    /\ notion_pc.stage = "split"
    /\ Len(page_blocks) = 3
    /\ page_blocks[1].text = "a" /\ page_blocks[1].type = "paragraph"
    /\ Blank(2)
    /\ page_blocks[3].text = "a" /\ page_blocks[3].type = "paragraph"
    /\ Len(notion_entries) = 2
    /\ notion_entries[1].notion_blocks = <<page_blocks[1]>>
    /\ notion_entries[2].notion_blocks = <<page_blocks[3]>>

\* ------------------------------------------------------------------ C26
\* C26: a candidate that contains an image, video, audio or file block
\* contains exactly that one block, and a candidate of more than one block
\* consists of text-like blocks only.
C26_MediaCandidatesAreSingletons ==
    \A c \in 1..Len(notion_entries) :
        LET bs == notion_entries[c].notion_blocks
        IN  /\ (\E j \in 1..Len(bs) : bs[j].type \in {"image", "video", "audio", "file"})
                   => Len(bs) = 1
            /\ Len(bs) > 1 =>
                   \A j \in 1..Len(bs) :
                       bs[j].type \in {"paragraph", "heading_1", "heading_2", "heading_3",
                                       "bulleted_list_item", "numbered_list_item", "quote",
                                       "code", "equation"}

\* Witness: a page with two images in a row and two text blocks in a row,
\* split into two image candidates and one text candidate of two blocks.
C26_ImagesApartTextTogether ==
    /\ notion_pc.stage = "split"
    /\ Len(page_blocks) = 4
    /\ page_blocks[1].type = "image" /\ page_blocks[2].type = "image"
    /\ Len(notion_entries) = 3
    /\ Len(notion_entries[3].notion_blocks) = 2

\* ------------------------------------------------------------------ C30
\* C30: a blank paragraph resets the time override, also when no cluster is
\* open: a candidate whose first block directly follows a blank paragraph
\* starts at the time of that block (its created time, or the time in the
\* metadata of its file), not at a clock time given before the blank.
C30_BlankResetsTimeOverride ==
    notion_pc.stage = "split" =>
        \A c \in 1..Len(notion_entries) :
            LET first == notion_entries[c].notion_blocks[1]
            IN  (first.id > 1 /\ Blank(first.id - 1)) =>
                    notion_entries[c].start_time =
                        IF first.type \in {"image", "video", "audio", "file"}
                           /\ first.file_time # -1
                            THEN first.file_time ELSE first.created_time_ms

\* ------------------------------------------------------------------ C31
\* A paragraph whose whole text is a clock time, and the offset it names.
BareClock(i) ==
    page_blocks[i].type = "paragraph" /\ page_blocks[i].text \in {"0:01", "1:30 pm"}
ClockOffset(i) == IF page_blocks[i].text = "0:01" THEN 60000 ELSE 48600000
\* The candidates, by index, whose first block lies before block p.
StartedBefore(p) ==
    {c \in 1..Len(notion_entries) : notion_entries[c].notion_blocks[1].id < p}

C32_SeededFromFlushedCandidate ==
    notion_pc.stage = "split" =>
        \A c \in 2..Len(notion_entries) :
            LET before == notion_entries[c - 1].notion_blocks
            IN  notion_entries[c].notion_blocks[1].id = before[Len(before)].id + 1
                    => notion_entries[c].start_time = notion_entries[c - 1].start_time

\* Witness: the page [video, text]: the text candidate starts at the time in
\* the metadata of the video's file, as the video candidate does.
C32_TextAfterVideo ==
    /\ notion_pc.stage = "split"
    /\ Len(page_blocks) = 2
    /\ page_blocks[1].type = "video"
    /\ page_blocks[2].type = "paragraph" /\ page_blocks[2].text = "a"
    /\ Len(notion_entries) = 2
    /\ notion_entries[1].start_time = page_blocks[1].file_time
    /\ notion_entries[2].start_time = page_blocks[1].file_time
    /\ notion_entries[2].start_time # page_blocks[2].created_time_ms

\* ------------------------------------------------------------------ C33
\* C33 as stated: a candidate whose first block has a file with a creation
\* time within the day starts at that time; a creation time outside the day
\* is never the start time; and the first candidate of a page, when no clock
\* time comes before it and its file gives no usable time, starts at the
\* created time of its first block.
C33_StartTimeFromFileWithinDay ==
    notion_pc.stage = "split" =>
        \A c \in 1..Len(notion_entries) :
            LET first == notion_entries[c].notion_blocks[1]
                usable == first.type \in {"file", "image", "video", "audio"}
                              /\ first.file_time # -1
                              /\ first.file_time >= day_start_ms
                              /\ first.file_time <= day_end_ms
            IN  /\ usable => notion_entries[c].start_time = first.file_time
                /\ (first.file_time # -1 /\ ~usable)
                       => notion_entries[c].start_time # first.file_time
                /\ (c = 1 /\ ~usable /\ \A i \in 1..(first.id - 1) : Blank(i))
                       => notion_entries[c].start_time = first.created_time_ms

\* ------------------------------------------------------------------ C40
\* C40 as stated: every block that is neither a blank paragraph nor a bare
\* clock time is in exactly one candidate, the blocks of the candidates in
\* output order are those blocks in page order, and candidate k (from 0)
\* carries seq_id k.
C40_CandidatesPartitionThePage ==
    notion_pc.stage = "split" =>
        /\ \A i \in 1..Len(page_blocks) :
               (~Blank(i) /\ ~BareClock(i)) =>
                   Cardinality({<<c, j>> \in (1..Len(notion_entries)) \X (1..MaxBlocks + 1) :
                                   /\ j <= Len(notion_entries[c].notion_blocks)
                                   /\ notion_entries[c].notion_blocks[j] = page_blocks[i]})
                       = 1
        /\ \A c \in 1..Len(notion_entries) :
               LET bs == notion_entries[c].notion_blocks
               IN  /\ notion_entries[c].seq_id = c - 1
                   /\ \A j \in 1..Len(bs) :
                          /\ ~Blank(bs[j].id) /\ ~BareClock(bs[j].id)
                          /\ j > 1 => bs[j - 1].id < bs[j].id
                   /\ c > 1 => notion_entries[c - 1].notion_blocks[
                                   Len(notion_entries[c - 1].notion_blocks)].id < bs[1].id

\* ------------------------------------------------------------------ C34
\* C34: the watch loop does not look at the triggers in flight: at a tick, a
\* connector whose interval trigger has not ended and whose check interval
\* has passed again since its latest dispatch is dispatched once more, so
\* that two of its interval triggers are in flight together.
C34_DispatchedWhileStillRunning ==
    [][now' # now =>
          \A h \in Handlers :
              (/\ tasks[h] > 0
               /\ check_intervals[h] # None
               /\ now' - last_updated[h] > check_intervals[h] * 1000)
                  => /\ tasks'[h] = tasks[h] + 1
                     /\ tasks'[h] >= 2
                     /\ last_updated'[h] = now'
      ]_vars

\* Witness: two interval triggers of one connector in flight, the second
\* dispatched more than a check interval after the first.
C34_TwoTriggersOfOneConnector ==
    \E h \in Handlers :
        /\ tasks[h] = 2
        /\ check_intervals[h] # None
        /\ last_updated[h] = now
        /\ now > StartTime + check_intervals[h] * 1000
        /\ trigger_errors[h] = <<>>

\* ------------------------------------------------------------------ C38
\* C38: one watcher at most works on a path: while the path is in
\* currently_processing_files no scan creates a watcher task for it, a path
\* enters the set only in the step in which its watcher starts, and the
\* new-file handler is invoked for it only by that watcher, in a step of its
\* own (its start or its wake from the sleep of a poll), and so never while
\* an invocation for the path is in flight.
C38_OneWatcherPerPath ==
    [][\A p \in Paths :
          /\ p \in currently_processing_files' => watchers'[p].pc # "created"
          /\ (p \in currently_processing_files' /\ p \notin currently_processing_files)
                 => watchers[p].pc = "created"
          /\ (watchers'[p].pc = "handling" /\ watchers'[p] # watchers[p])
                 => /\ watchers[p].pc \in {"created", "sleeping"}
                    /\ p \in currently_processing_files'
                    /\ watchers[p].pc = "sleeping" => p \in currently_processing_files
      ]_vars

\* Witness: after the second tick and its scan the file is still in the input
\* directory, its path is in the set and its handler is in flight.
C38_ScannedWhileHandling ==
    \E p \in Paths :
        /\ now >= StartTime + 2 * sleep_interval
        /\ ~scan_tasks
        /\ input_folder[p].exists
        /\ p \in currently_processing_files
        /\ watchers[p].pc = "handling"

\* ------------------------------------------------------------------ C39
\* C39 as stated, in its finite form: a path is in currently_processing_files
\* only while its watcher is at work; once the watcher has ended, whatever
\* the outcome, the path is out of the set.
C39_PathLeavesSetWithItsWatcher ==
    \A p \in Paths :
        p \in currently_processing_files => watchers[p].pc \in {"sleeping", "handling"}

\* C35: The recheck of a Notion page does not loop.  When the trigger that
\* processed the page returns, the page is stored with recheck_time 0 if it
\* was processed because its recheck time had expired, and with a recheck
\* time recheck_interval seconds ahead if it was processed because of an edit
\* or for the first time; a page is reported as due for a recheck only if it
\* was not reported so since the last edit of it was processed, and is then
\* stored with recheck_time 0 at once; and a page stored with recheck_time 0
\* and the last_edited_time the page has is not reported as updated.
C35_RecheckNeverLoops ==
    [][/\ (/\ notion_trigger.pc = "removing"
           /\ notion_trigger'.pc = "idle"
           /\ notion_trigger'.outcome = "processed")
          => pages_collection'.recheck_time =
                 IF notion_trigger.is_recheck
                     THEN 0 ELSE notion_site.now + recheck_interval * 1000
       /\ (/\ notion_trigger.pc = "idle"
           /\ notion_trigger'.pc = "updated"
           /\ notion_trigger'.is_recheck)
          => /\ pages_collection'.recheck_time = 0
             /\ notion_trigger.rechecks = 0
       /\ (/\ notion_trigger.pc = "idle"
           /\ pages_collection.found
           /\ pages_collection.recheck_time = 0
           /\ pages_collection.last_edited_time = notion_site.last_edit_time_ms)
          => notion_trigger'.pc = "idle"]_vars

\* A trigger processed the page because its recheck time had expired, and a
\* later trigger found the page not updated.
C35_RecheckedOnce ==
    /\ notion_trigger.pc = "idle"
    /\ notion_trigger.outcome = "not_updated"
    /\ notion_trigger.rechecks = 1
    /\ pages_collection.found
    /\ pages_collection.recheck_time = 0
    /\ notion_site.now > day_start_ms + recheck_interval * 1000

\* C36: When a trigger has processed an updated page, the ids the connector
\* tracks are the rep_uuids of the candidates just produced, the removed ids
\* are the ids stored before minus those rep_uuids, and of every removed
\* candidate neither the tracking document nor the record the connector
\* inserted for it is left.
C36_RemovedCandidatesAreDeleted ==
    (notion_trigger.pc = "idle" /\ notion_trigger.outcome = "processed") =>
        /\ get_stored_page_blocks(entries_collection) =
               {notion_entries[j].rep_uuid : j \in 1..Len(notion_entries)}
        /\ {block_data.id : block_data \in notion_trigger.removed} =
               notion_trigger.previous_block_ids
                   \ {notion_entries[j].rep_uuid : j \in 1..Len(notion_entries)}
        /\ \A block_data \in notion_trigger.removed :
               /\ block_data.id \notin get_stored_page_blocks(entries_collection)
               /\ ~Stored(db, block_data.stored_as)

\* C37: Every candidate the connector tracks as processed has a stored record.
C37_TrackedCandidatesAreStored ==
    \A block_data \in entries_collection : Stored(db, block_data.stored_as)

====
